---- MODULE Spec2Model ----
(***************************************************************************)
(* Range filters of go-apibox/filter: the eight range domains (Int32,      *)
(* Uint32, Int64, Uint64, Int, Uint, Timestamp, Time), their builder       *)
(* methods, the closures the validator constructors register, and Run.     *)
(*                                                                         *)
(* Integer types keep their width, scaled down: a 32-bit type has Bits32   *)
(* bits and a 64-bit type Bits64 = Bits32 + 1 bits.  The platform types    *)
(* int and uint are the 64-bit ones (64-bit build).  A time.Time is a      *)
(* whole number of seconds.                                                *)
(***************************************************************************)
EXTENDS Integers, Sequences, FiniteSets, TLC

\* ------------------------------------------------------------------ bounds
Bits32 == 2
MaxValidators == 2
MaxAllow == 1
MaxGoroutines == 2
TimeMax == 2
MaxErrorCalls == 2

Bits64 == Bits32 + 1

RECURSIVE Pow2(_)
Pow2(n) == IF n = 0 THEN 1 ELSE 2 * Pow2(n - 1)

\* ----------------------------------------------------------------- domains
IntDomains == {"Int32", "Uint32", "Int64", "Uint64", "Int", "Uint", "Timestamp"}
Domains == IntDomains \cup {"Time"}

Signed(d) == d \in {"Int32", "Int64", "Int"}

Width(d) == IF d \in {"Int32", "Uint32", "Timestamp"} THEN Bits32 ELSE Bits64

\* math.MinInt32 / math.MinInt64 / types.MinInt, and 0 for the unsigned types
MinOfTable == [d \in IntDomains |-> IF Signed(d) THEN 0 - Pow2(Width(d) - 1) ELSE 0]
MinOf(d) == MinOfTable[d]

\* math.MaxInt32 / math.MaxUint32 / math.MaxInt64 / math.MaxUint64 / types.MaxInt / types.MaxUint
MaxOfTable == [d \in IntDomains |-> IF Signed(d) THEN Pow2(Width(d) - 1) - 1
                                                  ELSE Pow2(Width(d)) - 1]
MaxOf(d) == MaxOfTable[d]

\* 2^w for the width w of a domain's type
ModulusTable == [d \in IntDomains |-> Pow2(Width(d))]

\* the values of a domain (for Time: the seconds of the modelled window)
Dom(d) == IF d = "Time" THEN 0 .. TimeMax ELSE MinOf(d) .. MaxOf(d)

\* a value stored into a variable of the domain's integer type (Go wraps)
Wrap(d, x) == IF d = "Time" THEN x
              ELSE ((x - MinOf(d)) % ModulusTable[d]) + MinOf(d)

\* conversion to uint64
U64(x) == x % ModulusTable["Uint64"]

Abs(x) == IF x < 0 THEN 0 - x ELSE x

\* ------------------------------------------------------------------ errors
Nil == [Type |-> "nil", Fields |-> << >>]

NewError(errorType, fields) == [Type |-> errorType, Fields |-> fields]

ErrorInvalidParam == "InvalidParam"

ErrorInternalError == "InternalError"

\* the const block with MissingParam and InvalidParam in each other's place
ErrorTypesReordered ==
    <<"ObjectNotExist", "ObjectDuplicated", "NoObjectUpdated", "NoObjectDeleted",
      "InvalidParam", "MissingParam", "QuotaExceed", "PermissionDenied",
      "OperationFailed", "InternalError">>

\* const ( ErrorObjectNotExist = iota; ... ; ErrorInternalError ): the error
\* kinds in the order of their declaration
ErrorTypes ==
    <<"ObjectNotExist", "ObjectDuplicated", "NoObjectUpdated", "NoObjectDeleted",
      "MissingParam", "InvalidParam", "QuotaExceed", "PermissionDenied",
      "OperationFailed", "InternalError">>

\* the value iota gives an error kind
ErrorValue(errorType) == (CHOOSE i \in 1 .. Len(ErrorTypes) : ErrorTypes[i] = errorType) - 1

\* the label of an error kind
appErrorCodes ==
    [ObjectNotExist |-> "ObjectNotExist", ObjectDuplicated |-> "ObjectDuplicated",
     NoObjectUpdated |-> "NoObjectUpdated", NoObjectDeleted |-> "NoObjectDeleted",
     MissingParam |-> "MissingParam", InvalidParam |-> "InvalidParam",
     QuotaExceed |-> "QuotaExceed", PermissionDenied |-> "PermissionDenied",
     OperationFailed |-> "OperationFailed", InternalError |-> "InternalError"]

\* strings.Join(fields, sep)
RECURSIVE Join(_, _)
Join(fields, sep) ==
    IF fields = << >> THEN ""
    ELSE IF Len(fields) = 1 THEN fields[1]
    ELSE fields[1] \o sep \o Join(Tail(fields), sep)

IsTimeDomain(d) == d \in {"Timestamp", "Time"}

TooSmall(d, side) ==
    IF side = "Left" THEN (IF IsTimeDomain(d) THEN "LeftTooEarly" ELSE "LeftTooSmall")
    ELSE (IF IsTimeDomain(d) THEN "RightTooEarly" ELSE "RightTooSmall")
TooLarge(d, side) ==
    IF side = "Left" THEN (IF IsTimeDomain(d) THEN "LeftTooLate" ELSE "LeftTooLarge")
    ELSE (IF IsTimeDomain(d) THEN "RightTooLate" ELSE "RightTooLarge")

\* ------------------------------------------------------------------ ranges
Range(l, r, lc, rc) == [Left |-> l, Right |-> r, LeftClosed |-> lc, RightClosed |-> rc]

RangesTable == [d \in Domains |-> {Range(l, r, lc, rc) : l \in Dom(d), r \in Dom(d),
                                                          lc \in BOOLEAN, rc \in BOOLEAN}]
Ranges(d) == RangesTable[d]

\* -------------------------------------------------- validator closures
(***************************************************************************)
(* A registered validator is a closure: v.kind names the constructor that  *)
(* built it, v.val and v.max are the variables it captured (val, or        *)
(* min/max, start/end; the distance for MinDistance/MaxDistance).          *)
(* Calling it yields the *Error it returns, the captured variables as the  *)
(* call leaves them, and <<dist>> for the width a distance validator first *)
(* computed (<< >> for the other validators).                              *)
(***************************************************************************)
\* the layouts of a TimeRange filter: the one TimeRange() sets, the one
\* HasTime() sets
DateLayout == "2006-01-02"

DateTimeLayout == "2006-01-02 15:04:05"

Layouts == {DateLayout, DateTimeLayout}

\* v.valid tells whether the strings the constructor was given are well
\* formed (the threshold of a TimeRange boundary validator a time in the form
\* v.form, the duration of a TimeRange distance validator a duration without
\* ns, us or ms); the integer constructors take numbers.  v.form is the
\* layout the threshold strings of a TimeRange boundary validator are
\* written in.
Threshold(kind, val, max, form) ==
    [kind |-> kind, val |-> val, max |-> max, form |-> form, valid |-> TRUE]

Validator(kind, val, max) == Threshold(kind, val, max, DateLayout)

\* a TimeRange validator built with a string that does not parse
Malformed(kind) == [kind |-> kind, val |-> 0, max |-> 0, form |-> DateLayout, valid |-> FALSE]

\* f.layout: the field of the TimeRange filter the closures read through the
\* receiver they captured
VARIABLE layout

\* time.ParseInLocation(layout, tm, timeLoc): whether the threshold strings
\* of closure v parse under layout l
ParseInLocation(l, v) == v.valid /\ v.form = l

Called(v, err, dist) == [v |-> v, err |-> err, dist |-> dist]

NoDist == << >>

InvalidParam(paramName, reason) == NewError(ErrorInvalidParam, <<paramName, reason>>)

\* LeftAdjust without the test against the minimum of the type
LeftAdjustUnguarded(d, r, val) ==
    IF r.LeftClosed THEN val
    ELSE IF d = "Time" THEN val - 1
    ELSE Wrap(d, val - 1)

\* if !paramValue.LeftClosed { if val > MIN { val = val - 1 } }
\* (Time: t = t.Add(-1 * time.Second), no guard)
LeftAdjust(d, r, val) ==
    IF r.LeftClosed THEN val
    ELSE IF d = "Time" THEN val - 1
    ELSE IF val > MinOf(d) THEN Wrap(d, val - 1) ELSE val

\* RightAdjust moving the threshold the way the left validators do
RightAdjustDecrements(d, r, val) ==
    IF r.RightClosed THEN val
    ELSE IF d = "Time" THEN val - 1
    ELSE IF val > MinOf(d) THEN Wrap(d, val - 1) ELSE val

\* if !paramValue.RightClosed { if val < MAX { val = val + 1 } }
\* (Time: t = t.Add(1 * time.Second), no guard)
RightAdjust(d, r, val) ==
    IF r.RightClosed THEN val
    ELSE IF d = "Time" THEN val + 1
    ELSE IF val < MaxOf(d) THEN Wrap(d, val + 1) ELSE val

\* The integer closures assign the adjusted value to the captured variable;
\* the Time closures adjust a local parsed on every call.
Capture(d, v, val, max) ==
    IF d = "Time" THEN v ELSE [v EXCEPT !.val = val, !.max = max]

LeftMin(d, v, paramName, r) ==
    LET val == LeftAdjust(d, r, v.val)
    IN  Called(Capture(d, v, val, v.max),
               IF r.Left < val THEN InvalidParam(paramName, TooSmall(d, "Left")) ELSE Nil,
               NoDist)

LeftMax(d, v, paramName, r) ==
    LET val == LeftAdjust(d, r, v.val)
    IN  Called(Capture(d, v, val, v.max),
               IF r.Left > val THEN InvalidParam(paramName, TooLarge(d, "Left")) ELSE Nil,
               NoDist)

LeftLargerThan(d, v, paramName, r) ==
    LET val == LeftAdjust(d, r, v.val)
    IN  Called(Capture(d, v, val, v.max),
               IF r.Left <= val THEN InvalidParam(paramName, TooSmall(d, "Left")) ELSE Nil,
               NoDist)

LeftSmallerThan(d, v, paramName, r) ==
    LET val == LeftAdjust(d, r, v.val)
    IN  Called(Capture(d, v, val, v.max),
               IF r.Left >= val THEN InvalidParam(paramName, TooLarge(d, "Left")) ELSE Nil,
               NoDist)

LeftEqual(d, v, paramName, r) ==
    LET val == LeftAdjust(d, r, v.val)
    IN  Called(Capture(d, v, val, v.max),
               IF r.Left < val THEN InvalidParam(paramName, TooSmall(d, "Left"))
               ELSE IF r.Left > val THEN InvalidParam(paramName, TooLarge(d, "Left"))
               ELSE Nil,
               NoDist)

LeftBetween(d, v, paramName, r) ==
    LET min == LeftAdjust(d, r, v.val)
        max == LeftAdjust(d, r, v.max)
    IN  Called(Capture(d, v, min, max),
               IF r.Left < min THEN InvalidParam(paramName, TooSmall(d, "Left"))
               ELSE IF r.Left > max THEN InvalidParam(paramName, TooLarge(d, "Left"))
               ELSE Nil,
               NoDist)

RightMin(d, v, paramName, r) ==
    LET val == RightAdjust(d, r, v.val)
    IN  Called(Capture(d, v, val, v.max),
               IF r.Right < val THEN InvalidParam(paramName, TooSmall(d, "Right")) ELSE Nil,
               NoDist)

RightMax(d, v, paramName, r) ==
    LET val == RightAdjust(d, r, v.val)
    IN  Called(Capture(d, v, val, v.max),
               IF r.Right > val THEN InvalidParam(paramName, TooLarge(d, "Right")) ELSE Nil,
               NoDist)

RightLargerThan(d, v, paramName, r) ==
    LET val == RightAdjust(d, r, v.val)
    IN  Called(Capture(d, v, val, v.max),
               IF r.Right <= val THEN InvalidParam(paramName, TooSmall(d, "Right")) ELSE Nil,
               NoDist)

RightSmallerThan(d, v, paramName, r) ==
    LET val == RightAdjust(d, r, v.val)
    IN  Called(Capture(d, v, val, v.max),
               IF r.Right >= val THEN InvalidParam(paramName, TooLarge(d, "Right")) ELSE Nil,
               NoDist)

\* RightEqual with the reason codes of LeftEqual left in
RightEqualLeftCodes(d, v, paramName, r) ==
    LET val == RightAdjust(d, r, v.val)
    IN  Called(Capture(d, v, val, v.max),
               IF r.Right < val THEN InvalidParam(paramName, TooSmall(d, "Left"))
               ELSE IF r.Right > val THEN InvalidParam(paramName, TooLarge(d, "Left"))
               ELSE Nil,
               NoDist)

RightEqual(d, v, paramName, r) ==
    LET val == RightAdjust(d, r, v.val)
    IN  Called(Capture(d, v, val, v.max),
               IF r.Right < val THEN InvalidParam(paramName, TooSmall(d, "Right"))
               ELSE IF r.Right > val THEN InvalidParam(paramName, TooLarge(d, "Right"))
               ELSE Nil,
               NoDist)

\* TimestampRangeFilter.RightBetween tests and increments start twice and
\* leaves end alone; the other domains adjust min and max once each.
RightBetween(d, v, paramName, r) ==
    LET min == IF d = "Timestamp"
               THEN RightAdjust(d, r, RightAdjust(d, r, v.val))
               ELSE RightAdjust(d, r, v.val)
        max == IF d = "Timestamp" THEN v.max ELSE RightAdjust(d, r, v.max)
    IN  Called(Capture(d, v, min, max),
               IF r.Right < min THEN InvalidParam(paramName, TooSmall(d, "Right"))
               ELSE IF r.Right > max THEN InvalidParam(paramName, TooLarge(d, "Right"))
               ELSE Nil,
               NoDist)

\* ------------------------------------------------------ distance validators
\* InitDist with every integer domain subtracting in its own type
InitDistNarrow(d, r) ==
    IF d = "Time" THEN r.Right - r.Left ELSE U64(Wrap(d, r.Right - r.Left))

\* dist as first computed, per domain:
\*   Int64            big.Int: right - left, exact
\*   Int32, Int       uint64(int64(Right) - int64(Left))
\*   unsigned domains uint64(Right - Left), the subtraction in the domain's type
\*   Time             Right.Sub(*Left).Seconds()
InitDist(d, r) ==
    CASE d = "Int64" -> r.Right - r.Left
      [] d \in {"Int32", "Int"} -> U64(Wrap("Int64", r.Right - r.Left))
      [] d = "Time" -> r.Right - r.Left
      [] OTHER -> U64(Wrap(d, r.Right - r.Left))

\* the number the guards and the final comparison read: dist.Uint64() for the
\* big.Int of Int64 (the low 64 bits of the absolute value), dist itself otherwise
DistValue(d, dist) == IF d = "Int64" THEN U64(Abs(dist)) ELSE dist

\* DistAdjust leaving a width of zero at zero instead of failing
DistAdjustClamps(d, closed, a) ==
    IF ~a.ok \/ closed THEN a
    ELSE IF d = "Time" THEN [a EXCEPT !.dist = @ - 1]
    ELSE IF DistValue(d, a.dist) > 0 THEN [a EXCEPT !.dist = @ - 1]
    ELSE a

\* if !closed { if dist > 0 { dist = dist - 1 } else { return WrongRange } }
\* (Time: d = d - 1, no guard)
DistAdjust(d, closed, a) ==
    IF ~a.ok \/ closed THEN a
    ELSE IF d = "Time" THEN [a EXCEPT !.dist = @ - 1]
    ELSE IF DistValue(d, a.dist) > 0 THEN [a EXCEPT !.dist = @ - 1]
    ELSE [a EXCEPT !.ok = FALSE]

\* AdjustedDist with a left adjustment that decrements without looking at dist
AdjustedDistLeftUnguarded(d, r) ==
    DistAdjust(d, r.RightClosed,
               [dist |-> IF r.LeftClosed THEN InitDist(d, r)
                         ELSE IF d \in {"Int64", "Time"} THEN InitDist(d, r) - 1
                         ELSE U64(InitDist(d, r) - 1),
                ok |-> TRUE])

\* left adjustment, then right adjustment
AdjustedDist(d, r) ==
    DistAdjust(d, r.RightClosed,
               DistAdjust(d, r.LeftClosed, [dist |-> InitDist(d, r), ok |-> TRUE]))

MinDistance(d, v, paramName, r) ==
    LET a == AdjustedDist(d, r)
    IN  Called(v,
               IF ~a.ok THEN InvalidParam(paramName, "WrongRange")
               ELSE IF DistValue(d, a.dist) < v.val THEN InvalidParam(paramName, "TooNear")
               ELSE Nil,
               <<InitDist(d, r)>>)

MaxDistance(d, v, paramName, r) ==
    LET a == AdjustedDist(d, r)
    IN  Called(v,
               IF ~a.ok THEN InvalidParam(paramName, "WrongRange")
               ELSE IF DistValue(d, a.dist) > v.val THEN InvalidParam(paramName, "TooFar")
               ELSE Nil,
               <<InitDist(d, r)>>)

\* a validator of the caller's own, registered with AddValidator: one that
\* accepts every range (val = 0) or rejects every range (val # 0)
Custom(d, v, paramName, r) ==
    Called(v, IF v.val # 0 THEN InvalidParam(paramName, "Custom") ELSE Nil, NoDist)

BoundaryKinds == {"LeftMin", "LeftMax", "LeftLargerThan", "LeftSmallerThan", "LeftEqual",
                  "LeftBetween", "RightMin", "RightMax", "RightLargerThan",
                  "RightSmallerThan", "RightEqual", "RightBetween"}
DistanceKinds == {"MinDistance", "MaxDistance"}
LeftKinds == {"LeftMin", "LeftMax", "LeftLargerThan", "LeftSmallerThan", "LeftEqual", "LeftBetween"}
RightKinds == BoundaryKinds \ LeftKinds

\* a *Range that is nil
NilPointer == [nil |-> TRUE]

\* no *Error: the run-time panic "invalid memory address or nil pointer
\* dereference", which unwinds the validator and Run
Panic == [Type |-> "panic", Fields |-> <<"nil pointer dereference">>]

\* regexp.MatchString(pattern, s) for the patterns below: whether the pattern
\* compiles and, if so, whether s has a match
Patterns == <<"^[0-9]+$", "a", "[0-9", "(">>

MatchString(pattern, s) ==
    CASE pattern = "^[0-9]+$" ->
            [ok |-> TRUE,
             matched |-> s # << >> /\ \A i \in 1 .. Len(s) : \E j \in 1 .. 10 :
                             s[i] = <<"0", "1", "2", "3", "4", "5", "6", "7", "8", "9">>[j]]
      [] pattern = "a" -> [ok |-> TRUE, matched |-> \E i \in 1 .. Len(s) : s[i] = "a"]
      [] OTHER -> [ok |-> FALSE, matched |-> FALSE]

\* Match with the error of regexp.MatchString dropped
MatchIgnoresError(d, v, paramName, s) ==
    Called(v,
           IF ~MatchString(Patterns[v.val], s).matched
           THEN InvalidParam(paramName, "WrongFormat")
           ELSE Nil,
           NoDist)

\* StringFilter.Match(pattern): v.val is the place of the pattern in Patterns
Match(d, v, paramName, s) ==
    Called(v,
           IF ~MatchString(Patterns[v.val], s).ok
           THEN NewError(ErrorInternalError, <<paramName, "InvalidValidator">>)
           ELSE IF ~MatchString(Patterns[v.val], s).matched
           THEN InvalidParam(paramName, "WrongFormat")
           ELSE Nil,
           NoDist)

\* a built-in closure of a range filter on a *Range that is not nil
CallBuiltin(d, v, paramName, r) ==
    CASE v.kind = "LeftMin" -> LeftMin(d, v, paramName, r)
      [] v.kind = "LeftMax" -> LeftMax(d, v, paramName, r)
      [] v.kind = "LeftLargerThan" -> LeftLargerThan(d, v, paramName, r)
      [] v.kind = "LeftSmallerThan" -> LeftSmallerThan(d, v, paramName, r)
      [] v.kind = "LeftEqual" -> LeftEqual(d, v, paramName, r)
      [] v.kind = "LeftBetween" -> LeftBetween(d, v, paramName, r)
      [] v.kind = "RightMin" -> RightMin(d, v, paramName, r)
      [] v.kind = "RightMax" -> RightMax(d, v, paramName, r)
      [] v.kind = "RightLargerThan" -> RightLargerThan(d, v, paramName, r)
      [] v.kind = "RightSmallerThan" -> RightSmallerThan(d, v, paramName, r)
      [] v.kind = "RightEqual" -> RightEqual(d, v, paramName, r)
      [] v.kind = "RightBetween" -> RightBetween(d, v, paramName, r)
      [] v.kind = "MinDistance" -> MinDistance(d, v, paramName, r)
      [] v.kind = "MaxDistance" -> MaxDistance(d, v, paramName, r)

\* ------------------------------------------------- scalar filter closures
\* the scalar filters modelled, and the integer type each one returns
ScalarFilters == {"Int32Filter", "Uint32Filter", "TimestampFilter"}

ScalarType(d) ==
    CASE d = "Int32Filter" -> "Int32"
      [] d = "Uint32Filter" -> "Uint32"
      [] d = "TimestampFilter" -> "Timestamp"

\* TimestampFilter.StartFrom(val)
StartFrom(d, v, paramName, paramValue) ==
    Called(v, IF paramValue < v.val THEN InvalidParam(paramName, "TooEarly") ELSE Nil, NoDist)

\* TimestampFilter.EndTo(val)
EndTo(d, v, paramName, paramValue) ==
    Called(v, IF paramValue < v.val THEN InvalidParam(paramName, "TooLate") ELSE Nil, NoDist)

\* TimestampFilter.After(val)
After(d, v, paramName, paramValue) ==
    Called(v, IF paramValue <= v.val THEN InvalidParam(paramName, "TooEarly") ELSE Nil, NoDist)

\* TimestampFilter.Before(val)
Before(d, v, paramName, paramValue) ==
    Called(v, IF paramValue >= v.val THEN InvalidParam(paramName, "TooLate") ELSE Nil, NoDist)

\* TimestampFilter.Equal(val)
Equal(d, v, paramName, paramValue) ==
    Called(v,
           IF paramValue < v.val THEN InvalidParam(paramName, "TooEarly")
           ELSE IF paramValue > v.val THEN InvalidParam(paramName, "TooLate")
           ELSE Nil,
           NoDist)

\* TimestampFilter.Between(start, end)
Between(d, v, paramName, paramValue) ==
    Called(v,
           IF paramValue < v.val THEN InvalidParam(paramName, "TooEarly")
           ELSE IF paramValue > v.max THEN InvalidParam(paramName, "TooLate")
           ELSE Nil,
           NoDist)

ScalarKinds == {"StartFrom", "EndTo", "After", "Before", "Equal", "Between"}

\* a closure of a scalar filter on the number Run converted paramValue to
CallScalar(d, v, paramName, paramValue) ==
    CASE v.kind = "StartFrom" -> StartFrom(d, v, paramName, paramValue)
      [] v.kind = "EndTo" -> EndTo(d, v, paramName, paramValue)
      [] v.kind = "After" -> After(d, v, paramName, paramValue)
      [] v.kind = "Before" -> Before(d, v, paramName, paramValue)
      [] v.kind = "Equal" -> Equal(d, v, paramName, paramValue)
      [] v.kind = "Between" -> Between(d, v, paramName, paramValue)

\* validator(paramName, range): the call of a registered closure.  The
\* caller's own validators modelled here do not read the range.  A TimeRange
\* closure parses its strings first and returns the internal error if that
\* fails; then every built-in closure reads a field of *paramValue.
Call(d, v, paramName, r) ==
    IF v.kind = "Custom" THEN Custom(d, v, paramName, r)
    ELSE IF v.kind = "Match" THEN Match(d, v, paramName, r)
    ELSE IF v.kind \in ScalarKinds THEN CallScalar(d, v, paramName, r)
    ELSE IF ~(IF d = "Time" /\ v.kind \in BoundaryKinds
              THEN ParseInLocation(layout, v) ELSE v.valid)
    THEN Called(v, NewError(ErrorInternalError, <<paramName, "InvalidValidator">>), NoDist)
    ELSE IF r = NilPointer THEN Called(v, Panic, NoDist)
    ELSE CallBuiltin(d, v, paramName, r)

\* a closure moving the endpoint of an open side one unit inwards in the
\* Range it is given, and marking the side closed, before it compares
WrittenNormalised(d, v, r) ==
    IF d = "String" \/ r = NilPointer \/ v.kind \notin BoundaryKinds THEN r
    ELSE IF v.kind \in LeftKinds /\ ~r.LeftClosed
    THEN [r EXCEPT !.Left = @ + 1, !.LeftClosed = TRUE]
    ELSE IF v.kind \in RightKinds /\ ~r.RightClosed
    THEN [r EXCEPT !.Right = @ - 1, !.RightClosed = TRUE]
    ELSE r

\* *paramValue after the call of a closure: the built-in closures read
\* paramValue.Left, .Right, .LeftClosed and .RightClosed and assign to none
\* of them (the adjustments go to the captured variables and to locals)
Written(d, v, r) == r

\* --------------------------------------------------------------- input text
(***************************************************************************)
(* A string is a sequence of one-character strings.  ParseRange stands for *)
(* types.Parse<Domain>Range of github.com/go-apibox/types, which is not    *)
(* part of the sources: bracket, optional decimal left endpoint, ",",      *)
(* optional decimal right endpoint, bracket; an omitted endpoint takes the *)
(* default of its side; anything else, and a literal outside the domain,   *)
(* is an error.                                                            *)
(***************************************************************************)
Cutset == {" ", "\t", "\r", "\n"}

RECURSIVE TrimLeft(_)
TrimLeft(s) == IF s # << >> /\ Head(s) \in Cutset THEN TrimLeft(Tail(s)) ELSE s

RECURSIVE TrimRight(_)
TrimRight(s) ==
    IF s # << >> /\ s[Len(s)] \in Cutset THEN TrimRight(SubSeq(s, 1, Len(s) - 1)) ELSE s

\* strings.Trim(val, " \t\r\n")
Trim(s) == TrimRight(TrimLeft(s))

Digits == <<"0", "1", "2", "3", "4", "5", "6", "7", "8", "9">>

DigitVal(c) == (CHOOSE i \in 1 .. 10 : Digits[i] = c) - 1

IsDigit(c) == \E i \in 1 .. 10 : Digits[i] = c

RECURSIVE ParseDigits(_, _)
ParseDigits(s, acc) ==
    IF s = << >> THEN acc ELSE ParseDigits(Tail(s), 10 * acc + DigitVal(Head(s)))

\* a decimal literal with an optional minus sign
ParseNumber(s) ==
    LET neg == s # << >> /\ Head(s) = "-"
        ds == IF neg THEN Tail(s) ELSE s
    IN  IF ds = << >> \/ \E i \in 1 .. Len(ds) : ~IsDigit(ds[i])
        THEN [n |-> 0, ok |-> FALSE]
        ELSE [n |-> IF neg THEN 0 - ParseDigits(ds, 0) ELSE ParseDigits(ds, 0), ok |-> TRUE]

ZeroRange == Range(0, 0, FALSE, FALSE)

ParseEndpoint(d, s, default) ==
    IF s = << >> THEN [n |-> default, ok |-> TRUE]
    ELSE LET p == ParseNumber(s)
         IN  IF p.ok /\ p.n \in Dom(d) THEN p ELSE [n |-> 0, ok |-> FALSE]

ParseRange(d, s, defaultLeft, defaultRight) ==
    LET commas == {i \in 1 .. Len(s) : s[i] = ","}
    IN  IF Len(s) < 3 \/ s[1] \notin {"[", "("} \/ s[Len(s)] \notin {"]", ")"}
           \/ Cardinality(commas) # 1
        THEN [ok |-> FALSE, rng |-> ZeroRange]
        ELSE LET c == CHOOSE i \in commas : TRUE
                 l == ParseEndpoint(d, SubSeq(s, 2, c - 1), defaultLeft)
                 r == ParseEndpoint(d, SubSeq(s, c + 1, Len(s) - 1), defaultRight)
             IN  IF l.ok /\ r.ok
                 THEN [ok |-> TRUE, rng |-> Range(l.n, r.n, s[1] = "[", s[Len(s)] = "]")]
                 ELSE [ok |-> FALSE, rng |-> ZeroRange]

\* --------------------------------------------------------------------- Run
\* paramValue (interface{}): nil, a string, a Range, a *Range, or another type
NilParam == [rng |-> ZeroRange, type |-> "nil", str |-> << >>]
StringParam(s) == [rng |-> ZeroRange, type |-> "string", str |-> s]
RangeParam(r) == [rng |-> r, type |-> "Range", str |-> << >>]
RangePtrParam(r) == [rng |-> r, type |-> "*Range", str |-> << >>]
OtherParam == [rng |-> ZeroRange, type |-> "other", str |-> << >>]
\* a *Range of the filter's domain that is nil: (*types.Int64Range)(nil)
NilRangePtrParam == [rng |-> ZeroRange, type |-> "nil *Range", str |-> << >>]

\* what Run returns: (interface{}, *Error)
Returned(value, err) == [err |-> err, value |-> value]

NotRangeTable == [d \in Domains |-> "Not" \o d \o "Range"]
NotRange(d) == NotRangeTable[d]

\* the filter as Run reads it
Filter(vs, allow, defaultLeft, defaultRight) ==
    [validators |-> vs, allowVals |-> allow,
     defaultLeftVal |-> defaultLeft, defaultRightVal |-> defaultRight]

\* Iteration cutting the chain at a validator that fails
IterationDropsFailed(acc, i, c) ==
    [err |-> IF c.err # Nil THEN c.err ELSE acc.err,
     dist |-> IF c.dist # NoDist THEN c.dist ELSE acc.dist,
     rng |-> acc.rng,
     validators |-> IF c.err # Nil THEN SubSeq(acc.validators, 1, i - 1)
                    ELSE [acc.validators EXCEPT ![i] = c.v],
     invoked |-> Append(acc.invoked, [err |-> c.err, idx |-> i])]

\* acc carries the closures as the calls so far left them, the calls made,
\* the last error, the last width a distance validator computed and the
\* value behind paramValue as the calls so far left it; c is what the call of
\* validator i yielded
Iteration(acc, i, c) ==
    [err |-> IF c.err # Nil THEN c.err ELSE acc.err,
     dist |-> IF c.dist # NoDist THEN c.dist ELSE acc.dist,
     rng |-> acc.rng,
     validators |-> [acc.validators EXCEPT ![i] = c.v],
     invoked |-> Append(acc.invoked, [err |-> c.err, idx |-> i])]

\* RunValidators without the return inside the loop: every validator is
\* called and the last error, if any, is the one kept
RECURSIVE RunValidatorsNoReturn(_, _, _, _, _)
RunValidatorsNoReturn(d, paramName, r, i, acc) ==
    IF i > Len(acc.validators) THEN acc
    ELSE RunValidatorsNoReturn(d, paramName, Written(d, acc.validators[i], r), i + 1,
             Iteration([acc EXCEPT !.rng = Written(d, acc.validators[i], r)], i,
                       Call(d, acc.validators[i], paramName, r)))

\* for _, validator := range f.validators { if err := validator(...); err != nil { return nil, err } }
RECURSIVE RunValidators(_, _, _, _, _)
RunValidators(d, paramName, r, i, acc) ==
    IF i > Len(acc.validators) \/ acc.err # Nil THEN acc
    ELSE RunValidators(d, paramName, Written(d, acc.validators[i], r), i + 1,
             Iteration([acc EXCEPT !.rng = Written(d, acc.validators[i], r)], i,
                       Call(d, acc.validators[i], paramName, r)))

\* the outcome of one Run: the pair returned, the closures afterwards, the
\* validator calls made, whether the parser was called, the last width
\* computed, and the value behind the pointer the validators were given as
\* they left it (NoRange when no validator was called)
NoRange == Range(0, 0, FALSE, FALSE)

Outcome(ret, vs, invoked, parsed, dist, rng) ==
    [dist |-> dist,
     rng |-> rng,
     validators |-> vs,
     invoked |-> invoked,
     ret |-> ret,
     parsed |-> parsed]

\* AfterValidators handing back the range in closed form: an open side
\* moved one unit inwards and marked closed
AfterValidatorsNormalised(r, parsed, a) ==
    Outcome(IF a.err # Nil THEN Returned(NilParam, a.err)
            ELSE IF r = NilPointer THEN Returned(NilRangePtrParam, Nil)
            ELSE Returned(RangePtrParam(Range(IF r.LeftClosed THEN r.Left ELSE r.Left + 1,
                                              IF r.RightClosed THEN r.Right ELSE r.Right - 1,
                                              TRUE, TRUE)), Nil),
            a.validators, a.invoked, parsed, a.dist, a.rng)

\* AfterValidators returning the range next to the validator's error
AfterValidatorsKeepsValue(r, parsed, a) ==
    Outcome(IF r = NilPointer THEN Returned(NilRangePtrParam, a.err)
            ELSE Returned(RangePtrParam(r), a.err),
            a.validators, a.invoked, parsed, a.dist, a.rng)

\* return nil, err / return &paramValue, nil
AfterValidators(r, parsed, a) ==
    Outcome(IF a.err # Nil THEN Returned(NilParam, a.err)
            ELSE IF r = NilPointer THEN Returned(NilRangePtrParam, Nil)
            ELSE Returned(RangePtrParam(a.rng), Nil),
            a.validators, a.invoked, parsed, a.dist, a.rng)

Validate(d, f, paramName, r, parsed) ==
    AfterValidators(r, parsed,
        RunValidators(d, paramName, r, 1,
            [err |-> Nil,
             dist |-> NoDist,
             rng |-> r,
             validators |-> f.validators,
             invoked |-> << >>]))

\* ParseError with the reason code of IntRangeFilter left in Int32RangeFilter
ParseErrorCopied(d, f, paramName, parsed) ==
    Outcome(Returned(NilParam,
                     InvalidParam(paramName, IF d = "Int32" THEN "NotIntRange" ELSE NotRange(d))),
            f.validators, << >>, parsed, NoDist, NoRange)

\* parse_error: return nil, NewError(ErrorInvalidParam, paramName, "Not<Domain>Range")
ParseError(d, f, paramName, parsed) ==
    Outcome(Returned(NilParam, InvalidParam(paramName, NotRange(d))),
            f.validators, << >>, parsed, NoDist, NoRange)

\* the parser called with the defaults of the factory, whatever the filter holds
ParseWithFactoryDefaults(d, f, val) ==
    ParseRange(d, val, IF d = "Time" THEN 0 ELSE MinOf(d),
                       IF d = "Time" THEN TimeMax ELSE MaxOf(d))

\* types.Parse<Domain>Range(val, f.defaultLeftVal, f.defaultRightVal)
ParseWithDefaults(d, f, val) ==
    ParseRange(d, val, f.defaultLeftVal, f.defaultRightVal)

\* Run without the test of paramValue against nil: nil reaches the type switch
RunNilUnchecked(d, f, paramName, paramValue) ==
    CASE paramValue.type = "string" ->
            LET val == Trim(paramValue.str)
            IN  IF \E i \in 1 .. Len(f.allowVals) : f.allowVals[i] = val
                THEN Outcome(Returned(StringParam(val), Nil), f.validators, << >>, FALSE, NoDist, NoRange)
                ELSE LET p == ParseWithDefaults(d, f, val)
                     IN  IF ~p.ok THEN ParseError(d, f, paramName, TRUE)
                         ELSE Validate(d, f, paramName, p.rng, TRUE)
      [] paramValue.type \in {"Range", "*Range"} ->
            Validate(d, f, paramName, paramValue.rng, FALSE)
      [] paramValue.type = "nil *Range" ->
            Validate(d, f, paramName, NilPointer, FALSE)
      [] OTHER -> ParseError(d, f, paramName, FALSE)

\* Run with the allow-list consulted only after the parser has accepted the text
RunParseFirst(d, f, paramName, paramValue) ==
    CASE paramValue.type = "nil" ->
            Outcome(Returned(NilParam, Nil), f.validators, << >>, FALSE, NoDist, NoRange)
      [] paramValue.type = "string" ->
            LET val == Trim(paramValue.str)
                p == ParseWithDefaults(d, f, val)
            IN  IF ~p.ok THEN ParseError(d, f, paramName, TRUE)
                ELSE IF \E i \in 1 .. Len(f.allowVals) : f.allowVals[i] = val
                THEN Outcome(Returned(StringParam(val), Nil), f.validators, << >>, TRUE, NoDist, NoRange)
                ELSE Validate(d, f, paramName, p.rng, TRUE)
      [] paramValue.type \in {"Range", "*Range"} ->
            Validate(d, f, paramName, paramValue.rng, FALSE)
      [] paramValue.type = "nil *Range" ->
            Validate(d, f, paramName, NilPointer, FALSE)
      [] OTHER -> ParseError(d, f, paramName, FALSE)

Run(d, f, paramName, paramValue) ==
    CASE paramValue.type = "nil" ->
            Outcome(Returned(NilParam, Nil), f.validators, << >>, FALSE, NoDist, NoRange)
      [] paramValue.type = "string" ->
            LET val == Trim(paramValue.str)
            IN  IF \E i \in 1 .. Len(f.allowVals) : f.allowVals[i] = val
                THEN Outcome(Returned(StringParam(val), Nil), f.validators, << >>, FALSE, NoDist, NoRange)
                ELSE LET p == ParseWithDefaults(d, f, val)
                     IN  IF ~p.ok THEN ParseError(d, f, paramName, TRUE)
                         ELSE Validate(d, f, paramName, p.rng, TRUE)
      [] paramValue.type \in {"Range", "*Range"} ->
            Validate(d, f, paramName, paramValue.rng, FALSE)
      [] paramValue.type = "nil *Range" ->
            Validate(d, f, paramName, NilPointer, FALSE)
      [] OTHER -> ParseError(d, f, paramName, FALSE)

\* ------------------------------------------------------------ StringFilter
STRING_RAWCASE == 0
STRING_LOWERCASE == 1
STRING_UPPERCASE == 2

\* the letters of the texts offered, lower case and upper case
Letters == <<<<"a", "A">>, <<"n", "N">>, <<"y", "Y">>, <<"x", "X">>>>

\* strings.ToLower / strings.ToUpper
ToLower(s) ==
    [i \in 1 .. Len(s) |->
        IF \E j \in 1 .. Len(Letters) : Letters[j][2] = s[i]
        THEN Letters[CHOOSE j \in 1 .. Len(Letters) : Letters[j][2] = s[i]][1]
        ELSE s[i]]

ToUpper(s) ==
    [i \in 1 .. Len(s) |->
        IF \E j \in 1 .. Len(Letters) : Letters[j][1] = s[i]
        THEN Letters[CHOOSE j \in 1 .. Len(Letters) : Letters[j][1] = s[i]][2]
        ELSE s[i]]

\* the StringFilter as Run reads it; String() leaves strcase at
\* STRING_RAWCASE and trim at false
StringFilter(vs, allow) ==
    [validators |-> vs, allowVals |-> allow, strcase |-> STRING_RAWCASE, trim |-> FALSE]

\* switch f.strcase { ... }; if f.trim { strVal = strings.Trim(strVal, " \t\r\n") }
Transformed(f, strVal) ==
    IF f.trim
    THEN Trim(CASE f.strcase = STRING_LOWERCASE -> ToLower(strVal)
                [] f.strcase = STRING_UPPERCASE -> ToUpper(strVal)
                [] OTHER -> strVal)
    ELSE CASE f.strcase = STRING_LOWERCASE -> ToLower(strVal)
           [] f.strcase = STRING_UPPERCASE -> ToUpper(strVal)
           [] OTHER -> strVal

\* return nil, err / return strVal, nil
StringAfterValidators(strVal, a) ==
    Outcome(IF a.err # Nil THEN Returned(NilParam, a.err)
            ELSE Returned(StringParam(strVal), Nil),
            a.validators, a.invoked, FALSE, NoDist, a.rng)

\* StringFilter.Run
StringRun(f, paramName, paramValue) ==
    IF paramValue.type = "nil"
    THEN Outcome(Returned(NilParam, Nil), f.validators, << >>, FALSE, NoDist, NoRange)
    ELSE IF paramValue.type # "string"
    THEN Outcome(Returned(NilParam, InvalidParam(paramName, "NotString")),
                 f.validators, << >>, FALSE, NoDist, NoRange)
    ELSE IF \E i \in 1 .. Len(f.allowVals) : f.allowVals[i] = paramValue.str
    THEN Outcome(Returned(StringParam(paramValue.str), Nil), f.validators, << >>, FALSE, NoDist, NoRange)
    ELSE StringAfterValidators(
             Transformed(f, paramValue.str),
             RunValidators("String", paramName, Transformed(f, paramValue.str), 1,
                 [err |-> Nil,
                  dist |-> NoDist,
                  rng |-> Transformed(f, paramValue.str),
                  validators |-> f.validators,
                  invoked |-> << >>]))

\* ------------------------------------------------------ scalar filter Run
\* paramValue holding a number of the filter's own type (int32, uint32)
NumberParam(n) == [rng |-> ZeroRange, type |-> "number", str |-> << >>, num |-> n]

ScalarFilter(vs, allow) == [validators |-> vs, allowVals |-> allow]

\* strconv.ParseInt(val, 10, 0): an optional sign and decimal digits; a value
\* outside int (64 bits) is a range error
ParseInt(val) ==
    IF val # << >> /\ Head(val) = "+"
    THEN (IF Tail(val) # << >> /\ Head(Tail(val)) \notin {"+", "-"}
             /\ ParseNumber(Tail(val)).ok /\ ParseNumber(Tail(val)).n <= MaxOf("Int")
          THEN ParseNumber(Tail(val)) ELSE [n |-> 0, ok |-> FALSE])
    ELSE IF ParseNumber(val).ok /\ ParseNumber(val).n \in MinOf("Int") .. MaxOf("Int")
    THEN ParseNumber(val) ELSE [n |-> 0, ok |-> FALSE]

\* strconv.ParseUint(val, 10, 0): decimal digits without a sign; a value
\* above the largest uint (64 bits) is a range error
ParseUint(val) ==
    IF val # << >> /\ Head(val) # "-" /\ ParseNumber(val).ok /\ ParseNumber(val).n <= MaxOf("Uint")
    THEN ParseNumber(val) ELSE [n |-> 0, ok |-> FALSE]

NotNumber(d) ==
    CASE d = "Int32Filter" -> "NotInt32"
      [] d = "Uint32Filter" -> "NotUint32"
      [] d = "TimestampFilter" -> "NotTimestamp"

\* goto parse_error
ScalarParseError(d, f, paramName) ==
    Outcome(Returned(NilParam, InvalidParam(paramName, NotNumber(d))),
            f.validators, << >>, FALSE, NoDist, NoRange)

\* the validator loop and the return of intVal
ScalarAfterValidators(intVal, a) ==
    Outcome(IF a.err # Nil THEN Returned(NilParam, a.err) ELSE Returned(NumberParam(intVal), Nil),
            a.validators, a.invoked, FALSE, a.dist, NoRange)

ScalarValidate(d, f, paramName, intVal) ==
    ScalarAfterValidators(intVal,
        RunValidators(d, paramName, intVal, 1,
            [err |-> Nil,
             dist |-> NoDist,
             rng |-> NoRange,
             validators |-> f.validators,
             invoked |-> << >>]))

\* if err != nil { goto parse_error }; if v > math.MaxInt32 { goto parse_error }
\* (Int32Filter, Uint32Filter; TimestampFilter has no such test);
\* intVal = int32(v) / uint32(v)
Converted(d, f, paramName, v) ==
    IF ~v.ok THEN ScalarParseError(d, f, paramName)
    ELSE IF d # "TimestampFilter" /\ v.n > MaxOf(ScalarType(d))
    THEN ScalarParseError(d, f, paramName)
    ELSE ScalarValidate(d, f, paramName, Wrap(ScalarType(d), v.n))

\* Int32Filter.Run, Uint32Filter.Run, TimestampFilter.Run
ScalarRun(d, f, paramName, paramValue) ==
    IF paramValue.type = "nil"
    THEN Outcome(Returned(NilParam, Nil), f.validators, << >>, FALSE, NoDist, NoRange)
    ELSE IF paramValue.type = "string"
    THEN (IF \E i \in 1 .. Len(f.allowVals) : f.allowVals[i] = Trim(paramValue.str)
          THEN Outcome(Returned(StringParam(Trim(paramValue.str)), Nil),
                       f.validators, << >>, FALSE, NoDist, NoRange)
          ELSE Converted(d, f, paramName,
                         IF d = "Int32Filter" THEN ParseInt(Trim(paramValue.str))
                         ELSE ParseUint(Trim(paramValue.str))))
    ELSE IF paramValue.type = "number"
    THEN ScalarValidate(d, f, paramName, paramValue.num)
    ELSE ScalarParseError(d, f, paramName)

\* ------------------------------------------------------------ state machine
VARIABLES
    dom,              \* the domain of the filter under study
    validators,       \* f.validators: the registered closures, captured variables included
    config,           \* the closures as they were registered
    allowVals,        \* f.allowVals
    defaultLeftVal,   \* f.defaultLeftVal
    defaultRightVal,  \* f.defaultRightVal
    phase,            \* "build" until the first Run; then "returned" while the caller
                      \* holds what Run returned, "idle" once it has dropped it,
                      \* "panicked" once a Run has panicked
    arg,              \* paramValue of the latest Run
    ret,              \* what the latest Run returned
    invoked,          \* the validator calls the latest Run made, in order
    parsed,           \* whether the latest Run called the parser
    dist,             \* the width the latest Run's last distance validator computed
    routines,         \* the goroutines calling Run concurrently, each with its position
    registered,       \* the layout that was in force when each closure was registered
    pointee,          \* the pointer the latest Run returned as its value, and the
                      \* value behind the caller's paramValue as that Run left it
    last              \* the latest call of a method other than Run, while the caller
                      \* holds what it returned: the method, its arguments, the result

vars == <<dom, layout, registered, validators, config, allowVals, defaultLeftVal, defaultRightVal,
          phase, arg, ret, invoked, parsed, dist, pointee, routines, last>>

ParamName == "x"

\* Run taking a copy of the Range behind the caller's pointer and going on
\* with the address of the copy
PointerToCopy(paramValue) ==
    CASE paramValue.type = "string" -> "parsed"
      [] paramValue.type \in {"*Range", "nil *Range", "Range"} -> "&val"
      [] OTHER -> "none"

\* the pointer Run's local range variable holds after the type switch:
\*   case string:        the pointer types.Parse<Domain>Range returned
\*   case *types.Range:  val, the caller's pointer
\*   case types.Range:   &val, the address of the switch's copy
Pointer(paramValue) ==
    CASE paramValue.type = "string" -> "parsed"
      [] paramValue.type \in {"*Range", "nil *Range"} -> "paramValue"
      [] paramValue.type = "Range" -> "&val"
      [] OTHER -> "none"

\* no pointer returned, nothing behind paramValue
NoPointee == [rng |-> NoRange, ref |-> "none"]

\* the texts offered to Run and to Allow
Texts == { <<"a", "n", "y">>,
           <<" ", "a", "n", "y", "\n">>,
           <<"[", "0", ",", "1", "]">>,
           <<"\t", "(", "0", ",", "1", ")", " ">>,
           <<"[", ",", "1", ")">>,
           <<"[", "1", ",", "x", "]">> }

AllowTexts == { <<"a", "n", "y">>, <<"[", "0", ",", "1", "]">> }

\* the middle value of a domain
Mid(d) == IF d = "Time" THEN 1 ELSE MinOf(d) + Pow2(Width(d) - 1)

\* the least and the greatest value of a domain
Lo(d) == IF d = "Time" THEN 0 ELSE MinOf(d)
Hi(d) == IF d = "Time" THEN TimeMax ELSE MaxOf(d)

\* the ranges offered to Run next to the texts: a left endpoint at the low
\* end of the domain and a right endpoint at the high end
SampleRanges(d) ==
    {Range(l, r, lc, rc) : l \in {Lo(d), Lo(d) + 1}, r \in {Hi(d) - 1, Hi(d)},
                           lc \in BOOLEAN, rc \in BOOLEAN}

ParamValuesTable ==
    [d \in Domains |->
        {NilParam, OtherParam, NilRangePtrParam}
            \cup {StringParam(s) : s \in Texts}
            \cup {RangePtrParam(r) : r \in SampleRanges(d)}
            \cup {RangeParam(r) : r \in {x \in SampleRanges(d) : x.LeftClosed /\ x.RightClosed}}]
ParamValues(d) == ParamValuesTable[d]

\* the closures offered to AddValidator when chains are built
SampleClosures(d) ==
    { Validator("LeftEqual", Lo(d) + 2, 0),
      Validator("RightMax", Hi(d) - 1, 0),
      Validator("MinDistance", Hi(d) - Lo(d), 0),
      Validator("Custom", 1, 0) }

\* the defaults offered to LeftDefault and RightDefault
SampleDefaults(d) == {Mid(d)}

\* the distances a distance validator can be built with (uint64/uint for the
\* signed domains and the 64-bit ones, uint32 for Uint32 and Timestamp, a
\* duration in seconds, possibly negative, for Time)
Distances(d) ==
    CASE d = "Time" -> (0 - 1) .. TimeMax
      [] d \in {"Uint32", "Timestamp"} -> 0 .. (Pow2(Bits32) - 1)
      [] OTHER -> 0 .. (Pow2(Bits64) - 1)

\* the closures the boundary-validator constructors can register: every
\* threshold of the domain; for Between every min, with max next to min or at
\* the top of the domain
BoundaryClosuresTable ==
    [d \in Domains |->
        {Validator(k, val, 0) : k \in BoundaryKinds \ {"LeftBetween", "RightBetween"},
                                val \in Dom(d)}
            \cup {Validator(k, p[1], p[2]) :
                    k \in {"LeftBetween", "RightBetween"},
                    p \in {q \in Dom(d) \X Dom(d) : q[2] \in {q[1] - 1, q[1], q[1] + 1, Hi(d)}}}]
BoundaryClosures(d) == BoundaryClosuresTable[d]

\* every closure a distance-validator constructor can register
DistanceClosuresTable ==
    [d \in Domains |-> {Validator(k, val, 0) : k \in DistanceKinds, val \in Distances(d)}]
DistanceClosures(d) == DistanceClosuresTable[d]

\* the ranges offered to a boundary validator: one endpoint runs over the
\* domain while the other, which the validator does not read, is an extreme
BoundaryRangesTable ==
    [d \in Domains |->
        {x \in Ranges(d) : x.Left = Lo(d) \/ x.Right = Hi(d)}]
BoundaryRanges(d) == BoundaryRangesTable[d]

\* the goroutines of the concurrent callers
Goroutines == 1 .. MaxGoroutines

\* a goroutine: pc is where it stands in Run ("idle" outside Run; "load",
\* "store", "compare" inside validator i; "done" once Run has returned ret),
\* rng the range it passed, k the adjustment of validator i it has reached,
\* reg the captured value it read for that adjustment
Routine(pc, rng, i, k, reg, r) == [i |-> i, rng |-> rng, ret |-> r, k |-> k, pc |-> pc, reg |-> reg]

Idle == Routine("idle", ZeroRange, 0, 0, 0, Returned(NilParam, Nil))

\* the filter the factory allocated (f := new(Int64RangeFilter)), as a pointer
Receiver == "f"

\* a call of a method other than Run and what it returned
MethodCall(op, args, result) == [ret |-> result, op |-> op, args |-> args]

\* no such call whose result the caller still holds
NoCall == MethodCall("none", << >>, "none")

\* Int64Range(), Uint32Range(), ..., TimeRange(): the factories.  TimeRange
\* takes time.Now() for the right default.
Init ==
    /\ dom \in Domains
    /\ layout = DateLayout
    /\ registered = << >>
    /\ validators = << >>
    /\ config = << >>
    /\ allowVals = << >>
    /\ defaultLeftVal = (IF dom = "Time" THEN 0 ELSE MinOf(dom))
    /\ defaultRightVal \in (IF dom = "Time" THEN Dom(dom) ELSE {MaxOf(dom)})
    /\ phase = "build"
    /\ arg = NilParam
    /\ ret = Returned(NilParam, Nil)
    /\ invoked = << >>
    /\ parsed = FALSE
    /\ dist = NoDist
    /\ pointee = NoPointee
    /\ routines = [g \in Goroutines |-> Idle]
    /\ last = MethodCall("Range", << >>, Receiver)

observed == <<arg, ret, invoked, parsed, dist, pointee, routines>>

\* Allow with a value receiver: the string is appended to the allow-list of a
\* copy of the filter, and the copy is what the caller gets
AllowOnCopy(val) ==
    /\ phase = "build"
    /\ Len(allowVals) < MaxAllow
    /\ last' = MethodCall("Allow", <<val>>, "copy")
    /\ UNCHANGED <<dom, layout, registered, validators, config, allowVals, defaultLeftVal, defaultRightVal,
                   phase, observed>>

\* f.allowVals = append(f.allowVals, vals...); return f
Allow(val) ==
    /\ phase = "build"
    /\ Len(allowVals) < MaxAllow
    /\ allowVals' = Append(allowVals, val)
    /\ last' = MethodCall("Allow", <<val>>, Receiver)
    /\ UNCHANGED <<dom, layout, registered, validators, config, defaultLeftVal, defaultRightVal, phase, observed>>

LeftDefault(val) ==
    /\ phase = "build"
    /\ defaultLeftVal' = val
    /\ last' = MethodCall("LeftDefault", <<val>>, Receiver)
    /\ UNCHANGED <<dom, layout, registered, validators, config, allowVals, defaultRightVal, phase, observed>>

RightDefault(val) ==
    /\ phase = "build"
    /\ defaultRightVal' = val
    /\ last' = MethodCall("RightDefault", <<val>>, Receiver)
    /\ UNCHANGED <<dom, layout, registered, validators, config, allowVals, defaultLeftVal, phase, observed>>

\* every validator constructor ends in f.AddValidator(closure)
AddValidator(validator) ==
    /\ phase = "build"
    /\ Len(validators) < MaxValidators
    /\ validators' = Append(validators, validator)
    /\ config' = Append(config, validator)
    /\ registered' = Append(registered, layout)
    /\ last' = MethodCall("AddValidator", <<validator>>, Receiver)
    /\ UNCHANGED <<dom, layout, allowVals, defaultLeftVal, defaultRightVal, phase, observed>>

\* TimeRangeFilter.HasTime(): f.layout = "2006-01-02 15:04:05"; return f
HasTime ==
    /\ dom = "Time"
    /\ phase = "build"
    /\ layout' = DateTimeLayout
    /\ last' = MethodCall("HasTime", << >>, Receiver)
    /\ UNCHANGED <<dom, registered, validators, config, allowVals, defaultLeftVal,
                   defaultRightVal, phase, observed>>

\* TimeRangeFilter.Layout(layout): f.layout = layout; return f
Layout(l) ==
    /\ dom = "Time"
    /\ phase = "build"
    /\ layout' = l
    /\ last' = MethodCall("Layout", <<l>>, Receiver)
    /\ UNCHANGED <<dom, registered, validators, config, allowVals, defaultLeftVal,
                   defaultRightVal, phase, observed>>

\* the Run has returned o.ret and left the closures as o.validators, or a
\* panic has unwound it: nothing is returned and the caller does not go on
RunReturns(paramValue, o) ==
    /\ phase' = IF o.ret.err = Panic THEN "panicked" ELSE "returned"
    /\ arg' = paramValue
    /\ ret' = IF o.ret.err = Panic THEN Returned(NilParam, Nil) ELSE o.ret
    /\ validators' = o.validators
    /\ invoked' = o.invoked
    /\ parsed' = o.parsed
    /\ dist' = o.dist
    /\ pointee' = [rng |-> IF paramValue.type = "*Range" THEN o.rng ELSE paramValue.rng,
                   ref |-> IF o.ret.err = Nil /\ o.ret.value.type \in {"*Range", "nil *Range"}
                           THEN Pointer(paramValue) ELSE "none"]
    /\ last' = NoCall
    /\ UNCHANGED <<dom, layout, registered, config, allowVals, defaultLeftVal, defaultRightVal, routines>>

CallRun(paramValue) ==
    RunReturns(paramValue,
               IF dom = "String"
               THEN StringRun(StringFilter(validators, allowVals), ParamName, paramValue)
               ELSE IF dom \in ScalarFilters
               THEN ScalarRun(dom, ScalarFilter(validators, allowVals), ParamName, paramValue)
               ELSE Run(dom, Filter(validators, allowVals, defaultLeftVal, defaultRightVal),
                        ParamName, paramValue))

\* the caller is done with the value and the error of the latest Run
Release ==
    /\ phase = "returned"
    /\ phase' = "idle"
    /\ arg' = NilParam
    /\ ret' = Returned(NilParam, Nil)
    /\ invoked' = << >>
    /\ parsed' = FALSE
    /\ dist' = NoDist
    /\ pointee' = NoPointee
    /\ last' = NoCall
    /\ UNCHANGED <<dom, layout, registered, validators, config, allowVals, defaultLeftVal, defaultRightVal, routines>>

\* a Run by a caller that holds no earlier result
FirstCall(paramValue) == phase \in {"build", "idle"} /\ CallRun(paramValue)

\* a Run on the paramValue of the Run before it
Again == phase = "returned" /\ CallRun(arg)

Next ==
    \/ \E val \in AllowTexts : Allow(val)
    \/ \E val \in SampleDefaults(dom) : LeftDefault(val)
    \/ \E val \in SampleDefaults(dom) : RightDefault(val)
    \/ \E validator \in SampleClosures(dom) : AddValidator(validator)
    \/ \E paramValue \in ParamValues(dom) : FirstCall(paramValue)
    \/ Again
    \/ Release

Spec == Init /\ [][Next]_vars

\* a filter with one boundary validator, run on ranges
OneValidator(validator) == validators = << >> /\ AddValidator(validator)

RunOnRange(r) == validators # << >> /\ FirstCall(RangePtrParam(r))

NextBoundary ==
    \/ \E validator \in BoundaryClosures(dom) : OneValidator(validator)
    \/ \E r \in BoundaryRanges(dom) : RunOnRange(r)
    \/ Release

SpecBoundary == Init /\ [][NextBoundary]_vars

\* a filter with one distance validator, run on ranges
NextDistance ==
    \/ \E validator \in DistanceClosures(dom) : OneValidator(validator)
    \/ \E r \in Ranges(dom) : RunOnRange(r)
    \/ Release

SpecDistance == Init /\ [][NextDistance]_vars

\* the defaults and the closures offered while a filter is built step by step
BuildDefaults(d) == {Lo(d), Mid(d), Hi(d)}

BuildClosures(d) == {Validator("LeftEqual", Lo(d) + 2, 0), Validator("Custom", 1, 0)}

\* a filter built by chained calls, then run on texts
\* the texts offered to a Run after the builders: those of Texts and texts
\* that leave out the right endpoint, or both
BuildTexts == Texts \cup { <<"(", "0", ",", "]">>, <<" ", "[", ",", ")">> }

NextBuild ==
    \/ \E val \in AllowTexts : Allow(val)
    \/ \E val \in BuildDefaults(dom) : LeftDefault(val)
    \/ \E val \in BuildDefaults(dom) : RightDefault(val)
    \/ \E validator \in BuildClosures(dom) : AddValidator(validator)
    \/ \E s \in BuildTexts : FirstCall(StringParam(s))
    \/ Release

SpecBuild == Init /\ [][NextBuild]_vars

\* one closure of every built-in constructor
ChainClosures(d) ==
    {Validator(k, Mid(d), Hi(d)) : k \in BoundaryKinds}
        \cup {Validator(k, 1, 0) : k \in DistanceKinds}

\* the caller's Ranges, handed over by pointer or by value
ChainRanges(d) == {Range(Lo(d) + 1, Hi(d) - 1, lc, rc) : lc \in BOOLEAN, rc \in BOOLEAN}

ChainParams(d) ==
    {RangePtrParam(r) : r \in ChainRanges(d)}
        \cup {RangeParam(r) : r \in {x \in ChainRanges(d) : ~x.LeftClosed /\ ~x.RightClosed}}

\* chains of built-in validators, run on the caller's Ranges
NextChain ==
    \/ \E validator \in ChainClosures(dom) : AddValidator(validator)
    \/ \E paramValue \in ChainParams(dom) : FirstCall(paramValue)
    \/ Release

SpecChain == Init /\ [][NextChain]_vars

\* TimeRange() under its builders HasTime and Layout: thresholds written as a
\* date and thresholds written as a date with a time, registered before and
\* after the layout is set
InitLayout == Init /\ dom = "Time"

LayoutClosures ==
    {Threshold(k, 1, 2, form) : k \in {"LeftMin", "RightMax", "LeftBetween"}, form \in Layouts}

LayoutParams == {RangePtrParam(Range(l, 2, TRUE, c)) : l \in 0 .. 1, c \in BOOLEAN}

NextLayout ==
    \/ \E validator \in LayoutClosures : AddValidator(validator)
    \/ HasTime
    \/ \E l \in Layouts : Layout(l)
    \/ \E paramValue \in LayoutParams : FirstCall(paramValue)
    \/ Release

SpecLayout == InitLayout /\ [][NextLayout]_vars

\* the decimal text of a number, as a caller writes it
RECURSIVE FormatDigits(_)
FormatDigits(n) ==
    IF n < 10 THEN <<Digits[n + 1]>>
    ELSE Append(FormatDigits(n \div 10), Digits[(n % 10) + 1])

FormatNumber(n) == IF n < 0 THEN <<"-">> \o FormatDigits(0 - n) ELSE FormatDigits(n)

\* the interval text with both endpoints written out
IntervalText(lb, a, b, rb) ==
    <<lb>> \o FormatNumber(a) \o <<",">> \o FormatNumber(b) \o <<rb>>

\* a filter without validators, run on the interval texts of its domain
RunOnText(lb, a, b, rb) ==
    validators = << >> /\ FirstCall(StringParam(IntervalText(lb, a, b, rb)))

NextParse ==
    \/ \E a \in Dom(dom), b \in Dom(dom), lb \in {"[", "("}, rb \in {"]", ")"} :
           RunOnText(lb, a, b, rb)
    \/ Release

SpecParse == Init /\ [][NextParse]_vars

\* Int32(), Uint32(), Timestamp(): the factories of the scalar filters
InitScalar ==
    /\ dom \in ScalarFilters
    /\ layout = DateLayout
    /\ registered = << >>
    /\ validators = << >>
    /\ config = << >>
    /\ allowVals = << >>
    /\ defaultLeftVal = 0
    /\ defaultRightVal = 0
    /\ phase = "build"
    /\ arg = NilParam
    /\ ret = Returned(NilParam, Nil)
    /\ invoked = << >>
    /\ parsed = FALSE
    /\ dist = NoDist
    /\ pointee = NoPointee
    /\ routines = [g \in Goroutines |-> Idle]
    /\ last = MethodCall(dom, << >>, Receiver)

\* the closures offered: the six of TimestampFilter with thresholds inside
\* the type, and a validator of the caller's own for every scalar filter
ScalarClosures(d) ==
    {Validator("Custom", c, 0) : c \in 0 .. 1}
        \cup (IF d = "TimestampFilter"
              THEN {Validator(k, 1, 2) : k \in ScalarKinds}
              ELSE {})

\* the decimal literals from below the smallest int to above the largest uint
Literals == (MinOf("Int") - 1) .. (MaxOf("Uint") + 1)

ScalarTexts ==
    {FormatNumber(n) : n \in Literals}
        \cup {<<"+", "1">>, <<" ", "1", "\n">>, <<"a">>, << >>, <<"-">>}

ScalarParams(d) ==
    {NilParam, OtherParam}
        \cup {StringParam(s) : s \in ScalarTexts}
        \cup {NumberParam(n) : n \in MinOf(ScalarType(d)) .. MaxOf(ScalarType(d))}

ScalarAllowTexts == {<<"1">>, <<"a">>}

NextScalar ==
    \/ \E val \in ScalarAllowTexts : Allow(val)
    \/ \E validator \in ScalarClosures(dom) : AddValidator(validator)
    \/ \E paramValue \in ScalarParams(dom) : FirstCall(paramValue)
    \/ Release

SpecScalar == InitScalar /\ [][NextScalar]_vars

\* String() and TimeRange(): the factories of the two filters whose
\* validators take strings that may not parse
InitMalformed ==
    /\ dom \in {"Time", "String"}
    /\ layout = DateLayout
    /\ registered = << >>
    /\ validators = << >>
    /\ config = << >>
    /\ allowVals = << >>
    /\ defaultLeftVal = 0
    /\ defaultRightVal = (IF dom = "Time" THEN TimeMax ELSE 0)
    /\ phase = "build"
    /\ arg = NilParam
    /\ ret = Returned(NilParam, Nil)
    /\ invoked = << >>
    /\ parsed = FALSE
    /\ dist = NoDist
    /\ pointee = NoPointee
    /\ routines = [g \in Goroutines |-> Idle]
    /\ last = MethodCall(dom, << >>, Receiver)

\* the closures offered: patterns that compile and patterns that do not;
\* thresholds and durations that parse and ones that do not
MalformedClosures(d) ==
    IF d = "String"
    THEN {Validator("Match", i, 0) : i \in 1 .. Len(Patterns)} \cup {Validator("Custom", 0, 0)}
    ELSE {Malformed(k) : k \in {"LeftMin", "RightBetween", "MinDistance", "MaxDistance"}}
             \cup {Validator("LeftMin", 1, 0), Validator("MaxDistance", 1, 0),
                   Validator("Custom", 0, 0)}

StringTexts == {<< >>, <<"1", "0">>, <<"a", "n", "y">>, <<" ", "x">>}

MalformedParams(d) ==
    IF d = "String"
    THEN {NilParam, OtherParam} \cup {StringParam(s) : s \in StringTexts}
    ELSE {NilRangePtrParam, StringParam(<<"[", "0", ",", "1", "]">>)}
             \cup {RangePtrParam(r) : r \in SampleRanges(d)}

NextMalformed ==
    \/ \E validator \in MalformedClosures(dom) : AddValidator(validator)
    \/ \E paramValue \in MalformedParams(dom) : FirstCall(paramValue)
    \/ Release

SpecMalformed == InitMalformed /\ [][NextMalformed]_vars

\* e.Fields = append([]string{appErrorCodes[e.Type]}, e.Fields...)
\* return strings.Join(e.Fields, ":")
\* called on the *Error the latest Run returned
Error ==
    /\ phase = "returned"
    /\ ret.err # Nil
    /\ Len(ret.err.Fields) < 2 + MaxErrorCalls
    /\ ret' = [ret EXCEPT !.err.Fields = <<appErrorCodes[ret.err.Type]>> \o @]
    /\ last' = MethodCall("Error", << >>,
                          Join(<<appErrorCodes[ret.err.Type]>> \o ret.err.Fields, ":"))
    /\ UNCHANGED <<dom, layout, registered, validators, config, allowVals, defaultLeftVal, defaultRightVal,
                   phase, arg, invoked, parsed, dist, pointee, routines>>

\* NewError(errorType, fields...) called by the caller itself, who then holds
\* the *Error as it would one a Run returned
NewErrorCall(errorType, fields) ==
    /\ phase \in {"build", "idle"}
    /\ phase' = "returned"
    /\ arg' = NilParam
    /\ ret' = Returned(NilParam, NewError(errorType, fields))
    /\ last' = NoCall
    /\ UNCHANGED <<dom, layout, registered, validators, config, allowVals, defaultLeftVal, defaultRightVal,
                   invoked, parsed, dist, pointee, routines>>

\* errors of every kind, built and formatted
NextKinds ==
    \/ \E i \in 1 .. Len(ErrorTypes), fields \in {<< >>, <<ParamName>>} :
           NewErrorCall(ErrorTypes[i], fields)
    \/ Error
    \/ Release

SpecKinds == Init /\ [][NextKinds]_vars

\* a filter with at most one validator, run, and the error it returned formatted
NextError ==
    \/ \E validator \in SampleClosures(dom) : OneValidator(validator)
    \/ \E paramValue \in ParamValues(dom) : FirstCall(paramValue)
    \/ Error
    \/ Release

SpecError == Init /\ [][NextError]_vars

\* ---------------------------------------------------------- concurrent Run
(***************************************************************************)
(* Run called by several goroutines on one filter, without synchronisation *)
(* (there is none in the sources).  A closure's accesses to its captured   *)
(* variables are separate steps: the guarded read of an adjustment         *)
(* ("load"), the assignment val = val -/+ 1 ("store"), and the comparison  *)
(* ("compare").  The callers pass *Range values.                           *)
(***************************************************************************)

\* the captured variables a closure adjusts, in order, when its side is open
Adjusted(d, v) ==
    IF d = "Time" \/ v.kind \notin BoundaryKinds THEN << >>
    ELSE IF v.kind = "RightBetween" /\ d = "Timestamp" THEN <<"val", "val">>
    ELSE IF v.kind \in {"LeftBetween", "RightBetween"} THEN <<"val", "max">>
    ELSE <<"val">>

SideOpen(v, r) == IF v.kind \in LeftKinds THEN ~r.LeftClosed ELSE ~r.RightClosed

Captured(v, name) == IF name = "val" THEN v.val ELSE v.max

\* the comparisons of a closure, on the captured variables as they stand
Compare(d, v, paramName, r) ==
    IF d = "Time" \/ v.kind \notin BoundaryKinds
    THEN Call(d, v, paramName, r).err
    ELSE Call(d, v, paramName, [r EXCEPT !.LeftClosed = TRUE, !.RightClosed = TRUE]).err

\* the sampled closures and ranges of the concurrent callers
ConcurrentClosures(d) ==
    { Validator("LeftMin", Lo(d) + 2, 0), Validator("RightBetween", Hi(d) - 2, Hi(d) - 1) }

ConcurrentRanges(d) ==
    {Range(l, r, lc, rc) : l \in {Lo(d) + 1}, r \in {Hi(d) - 1, Hi(d)},
                           lc \in BOOLEAN, rc \in BOOLEAN}

Built == <<dom, layout, registered, config, allowVals, defaultLeftVal, defaultRightVal, last>>

\* goroutine g enters Run with a *Range
Start(g, r) ==
    /\ routines[g].pc \in {"idle", "done"}
    /\ validators # << >>
    /\ phase' = "idle"
    /\ routines' = [routines EXCEPT ![g] = Routine("load", r, 1, 1, 0, Returned(NilParam, Nil))]
    /\ UNCHANGED <<Built, validators, arg, ret, invoked, parsed, dist, pointee>>

\* if !paramValue.LeftClosed { if val > MIN { ...   (the reads)
Load(g) ==
    LET s == routines[g]
        v == validators[s.i]
        a == Adjusted(dom, v)
    IN  /\ s.pc = "load"
        /\ IF s.k > Len(a) \/ ~SideOpen(v, s.rng)
           THEN routines' = [routines EXCEPT ![g].pc = "compare"]
           ELSE LET x == Captured(v, a[s.k])
                IN  IF (v.kind \in LeftKinds /\ x > MinOf(dom))
                        \/ (v.kind \in RightKinds /\ x < MaxOf(dom))
                    THEN routines' = [routines EXCEPT ![g].pc = "store", ![g].reg = x]
                    ELSE routines' = [routines EXCEPT ![g].k = s.k + 1]
        /\ UNCHANGED <<Built, validators, phase, arg, ret, invoked, parsed, dist, pointee>>

\* ... val = val - 1 } }   (the write)
Store(g) ==
    LET s == routines[g]
        v == validators[s.i]
        a == Adjusted(dom, v)
        x == Wrap(dom, IF v.kind \in LeftKinds THEN s.reg - 1 ELSE s.reg + 1)
    IN  /\ s.pc = "store"
        /\ validators' = [validators EXCEPT ![s.i] =
                             IF a[s.k] = "val" THEN [v EXCEPT !.val = x] ELSE [v EXCEPT !.max = x]]
        /\ routines' = [routines EXCEPT ![g].pc = "load", ![g].k = s.k + 1, ![g].reg = 0]
        /\ UNCHANGED <<Built, phase, arg, ret, invoked, parsed, dist, pointee>>

\* the comparisons of validator i, then the next validator or the return
CompareStep(g) ==
    LET s == routines[g]
        err == Compare(dom, validators[s.i], ParamName, s.rng)
    IN  /\ s.pc = "compare"
        /\ routines' = [routines EXCEPT ![g] =
               IF err # Nil THEN Routine("done", s.rng, s.i, 0, 0, Returned(NilParam, err))
               ELSE IF s.i = Len(validators)
                    THEN Routine("done", s.rng, s.i, 0, 0, Returned(RangePtrParam(s.rng), Nil))
                    ELSE Routine("load", s.rng, s.i + 1, 1, 0, s.ret)]
        /\ UNCHANGED <<Built, validators, phase, arg, ret, invoked, parsed, dist, pointee>>

NextConcurrent ==
    \/ \E validator \in ConcurrentClosures(dom) : AddValidator(validator)
    \/ \E g \in Goroutines : \E r \in ConcurrentRanges(dom) : Start(g, r)
    \/ \E g \in Goroutines : Load(g)
    \/ \E g \in Goroutines : Store(g)
    \/ \E g \in Goroutines : CompareStep(g)

SpecConcurrent == Init /\ [][NextConcurrent]_vars

\* ------------------------------------------------------------------ claims
IsRange(p) == p.type \in {"Range", "*Range"}

Accepted == ret.err = Nil

\* C1: two Run calls with the same (paramName, paramValue) on a built filter
\* return the same outcome: here, a Run on the paramValue of the Run just
\* before it returns what that Run returned.
C1_SameInputSameOutcome ==
    [][(phase = "returned" /\ phase' = "returned" /\ arg' = arg) => ret' = ret]_vars

\* C2: on a filter built with LeftMin(v), v > MIN, in an integer domain, every
\* Run, whatever the earlier Runs, accepts a left-open range iff Left >= v - 1
\* and a left-closed range iff Left >= v, and rejects with LeftTooSmall.
C2_LeftMinShiftedOnce ==
    (/\ phase = "returned"
     /\ dom \in IntDomains \ {"Timestamp"}
     /\ config[1].kind = "LeftMin"
     /\ config[1].val > MinOf(dom))
    => /\ Accepted <=> (arg.rng.Left >= (IF arg.rng.LeftClosed THEN config[1].val
                                         ELSE config[1].val - 1))
       /\ ~Accepted => ret.err = InvalidParam(ParamName, "LeftTooSmall")

\* C3: while Run calls overlap on a built filter, no step of one call writes a
\* captured variable that another call in flight still has to read or write,
\* and every call returns what it would return, alone, on a fresh filter of
\* the same configuration.
C3_ConcurrentRunsIndependent ==
    [][/\ \A i \in 1 .. Len(validators) :
            validators'[i] # validators[i]
            => ~\E g \in Goroutines, h \in Goroutines :
                    /\ g # h
                    /\ routines'[g] # routines[g]
                    /\ routines[h].pc \in {"load", "store", "compare"}
                    /\ routines[h].i <= i
       /\ \A g \in Goroutines :
            routines'[g].pc = "done"
            => routines'[g].ret =
                 Run(dom, Filter(config, allowVals, defaultLeftVal, defaultRightVal),
                     ParamName, RangePtrParam(routines'[g].rng)).ret
      ]_vars

\* the range the validators of the latest Run were given
Coerced(p) ==
    IF p.type = "string"
    THEN ParseRange(dom, Trim(p.str), defaultLeftVal, defaultRightVal).rng
    ELSE p.rng

\* whether a Run on p gets as far as the validators
ReachesValidators(p) ==
    \/ IsRange(p)
    \/ /\ p.type = "string"
       /\ ~\E i \in 1 .. Len(allowVals) : allowVals[i] = Trim(p.str)
       /\ ParseRange(dom, Trim(p.str), defaultLeftVal, defaultRightVal).ok

\* C4: Run calls the validators in registration order on the coerced range;
\* the first non-nil error ends the Run, which returns (nil, that error) and
\* calls no later validator; if none fails Run returns (range, nil).
C4_FirstErrorWins ==
    [][(phase' = "returned" /\ ReachesValidators(arg'))
       => LET n == Len(invoked')
          IN  /\ n <= Len(validators)
              /\ \A i \in 1 .. n :
                    /\ invoked'[i].idx = i
                    /\ invoked'[i].err = Call(dom, validators[i], ParamName, Coerced(arg')).err
              /\ \A i \in 1 .. (n - 1) : invoked'[i].err = Nil
              /\ IF n > 0 /\ invoked'[n].err # Nil
                 THEN ret' = Returned(NilParam, invoked'[n].err)
                 ELSE /\ n = Len(validators)
                      /\ ret' = Returned(RangePtrParam(Coerced(arg')), Nil)
      ]_vars

\* C4 witness: the first of two validators failed and the second was not called
C4_Witness ==
    /\ phase = "returned"
    /\ Len(validators) = 2
    /\ Len(invoked) = 1
    /\ invoked[1].err # Nil
    /\ ret = Returned(NilParam, invoked[1].err)

\* C5: a string that, trimmed, is in the allow-list is returned as it is,
\* without parsing and without any validator call; a Range or *Range always
\* goes through the validators.
C5_AllowBypass ==
    phase = "returned"
    => /\ (/\ arg.type = "string"
           /\ \E i \in 1 .. Len(allowVals) : allowVals[i] = Trim(arg.str))
          => /\ ret = Returned(StringParam(Trim(arg.str)), Nil)
             /\ ~parsed
             /\ invoked = << >>
       /\ (IsRange(arg) /\ validators # << >>) => invoked # << >>

\* C5 witness: " any\n" with "any" allowed, on a filter whose first validator
\* rejects every range, came back as "any"
C5_Witness ==
    /\ phase = "returned"
    /\ arg = StringParam(<<" ", "a", "n", "y", "\n">>)
    /\ validators # << >>
    /\ validators[1].kind = "Custom"
    /\ ~ParseRange(dom, Trim(arg.str), defaultLeftVal, defaultRightVal).ok
    /\ ret = Returned(StringParam(<<"a", "n", "y">>), Nil)

\* C6: in every domain MinDistance(0) accepts a range with Left = Right when
\* both sides are closed and rejects it with WrongRange when a side is open.
C6_ZeroDistance ==
    (/\ phase = "returned"
     /\ config[1] = Validator("MinDistance", 0, 0)
     /\ arg.rng.Left = arg.rng.Right)
    => IF arg.rng.LeftClosed /\ arg.rng.RightClosed
       THEN Accepted
       ELSE ret.err = InvalidParam(ParamName, "WrongRange")

\* v + 1 and v - 1, saturating at the ends of the domain
SatInc(d, x) == IF x < MaxOf(d) THEN x + 1 ELSE x
SatDec(d, x) == IF x > MinOf(d) THEN x - 1 ELSE x

\* the outcome of a Between check of x against [lo, hi]
BetweenOutcome(d, side, x, lo, hi, err) ==
    /\ (err = Nil) <=> (lo <= x /\ x <= hi)
    /\ x < lo => err = InvalidParam(ParamName, TooSmall(d, side))
    /\ (x >= lo /\ x > hi) => err = InvalidParam(ParamName, TooLarge(d, side))

\* C7: on the first Run of a fresh filter of an integer or timestamp domain,
\* RightBetween(min, max) on a right-open range accepts iff
\* min+1 <= Right <= max+1 and LeftBetween(min, max) on a left-open range iff
\* min-1 <= Left <= max-1 (saturating), with TooSmall/TooEarly below and
\* TooLarge/TooLate above.
C7_BetweenAdjustsBoth ==
    [][(phase = "build" /\ phase' = "returned" /\ dom \in IntDomains /\ IsRange(arg'))
       => /\ (config[1].kind = "RightBetween" /\ ~arg'.rng.RightClosed)
             => BetweenOutcome(dom, "Right", arg'.rng.Right,
                               SatInc(dom, config[1].val), SatInc(dom, config[1].max),
                               ret'.err)
          /\ (config[1].kind = "LeftBetween" /\ ~arg'.rng.LeftClosed)
             => BetweenOutcome(dom, "Left", arg'.rng.Left,
                               SatDec(dom, config[1].val), SatDec(dom, config[1].max),
                               ret'.err)
      ]_vars

\* C8: in every integer domain, after any Runs, the threshold a boundary
\* validator holds is a value of the domain reached from the configured one
\* without wrapping: between MIN and the configured value for a left
\* validator, between the configured value and MAX for a right validator.
C8_ThresholdsNeverWrap ==
    dom \in IntDomains
    => \A i \in 1 .. Len(validators) :
          LET c == config[i]
              v == validators[i]
          IN  /\ c.kind \in LeftKinds
                 => /\ MinOf(dom) <= v.val /\ v.val <= c.val
                    /\ c.kind = "LeftBetween" => (MinOf(dom) <= v.max /\ v.max <= c.max)
              /\ c.kind \in RightKinds
                 => /\ c.val <= v.val /\ v.val <= MaxOf(dom)
                    /\ c.kind = "RightBetween" => (c.max <= v.max /\ v.max <= MaxOf(dom))

\* C8 witness: RightMax(MAX) has validated a right-open range and LeftMin(MIN)
\* a left-open one
C8_Witness ==
    /\ phase = "returned"
    /\ dom \in IntDomains
    /\ \/ config[1] = Validator("RightMax", MaxOf(dom), 0) /\ ~arg.rng.RightClosed
       \/ config[1] = Validator("LeftMin", MinOf(dom), 0) /\ ~arg.rng.LeftClosed
    /\ validators = config

\* C9: in every integer domain of width w, for Left <= Right, the width a
\* distance validator first computes is Right - Left, a number of 0 .. 2^w - 1.
C9_WidthExact ==
    (/\ phase = "returned"
     /\ dom \in IntDomains
     /\ arg.rng.Left <= arg.rng.Right)
    => /\ dist = <<arg.rng.Right - arg.rng.Left>>
       /\ dist[1] \in 0 .. (ModulusTable[dom] - 1)

\* C9 witness: the width of [MIN, MAX] is 2^w - 1
C9_Witness ==
    /\ phase = "returned"
    /\ dom \in {"Int64", "Int32"}
    /\ arg.rng.Left = MinOf(dom)
    /\ arg.rng.Right = MaxOf(dom)
    /\ dist = <<ModulusTable[dom] - 1>>

\* C10: in every domain neither MinDistance(d) nor MaxDistance(d) accepts a
\* range with Left > Right, for any d and any open/closed flags.
C10_InvertedRangeRejected ==
    (phase = "returned" /\ arg.rng.Left > arg.rng.Right) => ~Accepted

\* the two adjustments of a distance validator in the other order: the
\* right one first, then the left one
ReversedDist(d, r) ==
    DistAdjust(d, r.LeftClosed,
               DistAdjust(d, r.RightClosed, [dist |-> InitDist(d, r), ok |-> TRUE]))

\* what MinDistance / MaxDistance v would return on r with the adjustments reversed
ReversedErr(d, v, r) ==
    IF ~ReversedDist(d, r).ok THEN InvalidParam(ParamName, "WrongRange")
    ELSE IF v.kind = "MinDistance" /\ DistValue(d, ReversedDist(d, r).dist) < v.val
    THEN InvalidParam(ParamName, "TooNear")
    ELSE IF v.kind = "MaxDistance" /\ DistValue(d, ReversedDist(d, r).dist) > v.val
    THEN InvalidParam(ParamName, "TooFar")
    ELSE Nil

\* C11 (as claimed): the order of the two open-side adjustments is observable:
\* for some distance validator of the domain there is a range on which the
\* right-then-left order returns something else than the left-then-right order.
C11_OrderObservable ==
    phase = "returned"
    => \E v \in DistanceClosures(dom) : \E r \in Ranges(dom) :
          ReversedErr(dom, v, r) # Call(dom, v, ParamName, r).err

\* C11 (amended): the order is not observable: what a distance validator
\* returned on a range is what it returns with the right adjustment made
\* before the left one.
C11_OrderNotObservable ==
    (/\ phase = "returned"
     /\ IsRange(arg)
     /\ Len(config) = 1
     /\ config[1].kind \in DistanceKinds)
    => ret.err = ReversedErr(dom, config[1], arg.rng)

\* C11 witness: a range of width 1 with both sides open was rejected with
\* WrongRange by a distance validator of an integer domain
C11_Witness ==
    /\ phase = "returned"
    /\ dom \in IntDomains
    /\ IsRange(arg)
    /\ Len(config) = 1
    /\ config[1].kind \in DistanceKinds
    /\ arg.rng.Right - arg.rng.Left = 1
    /\ ~arg.rng.LeftClosed
    /\ ~arg.rng.RightClosed
    /\ ret.err = InvalidParam(ParamName, "WrongRange")

\* C12: Run(name, nil) returns (nil, nil) and calls no validator (nor the
\* parser), whatever the allow-list, the defaults and the validators.
C12_NilInNilOut ==
    (phase = "returned" /\ arg = NilParam)
    => /\ ret = Returned(NilParam, Nil)
       /\ invoked = << >>
       /\ ~parsed

\* C12 witness: Run(name, nil) returned on a filter with an allow-list and a
\* first validator that rejects every range
C12_Witness ==
    /\ phase = "returned"
    /\ arg = NilParam
    /\ allowVals # << >>
    /\ validators # << >>
    /\ validators[1].kind = "Custom"
    /\ ret = Returned(NilParam, Nil)

\* the reason codes of a coercion failure, domain by domain
NotRangeCodes ==
    [Int32 |-> "NotInt32Range", Uint32 |-> "NotUint32Range", Int64 |-> "NotInt64Range",
     Uint64 |-> "NotUint64Range", Int |-> "NotIntRange", Uint |-> "NotUintRange",
     Timestamp |-> "NotTimestampRange", Time |-> "NotTimeRange"]

\* paramValue is no nil, string, Range or *Range, or is a string that is not
\* allowed and that the parser rejects
NotCoercible(p) ==
    \/ p.type \notin {"nil", "string", "Range", "*Range", "nil *Range"}
    \/ /\ p.type = "string"
       /\ ~\E i \in 1 .. Len(allowVals) : allowVals[i] = Trim(p.str)
       /\ ~ParseRange(dom, Trim(p.str), defaultLeftVal, defaultRightVal).ok

\* C13: a paramValue of another shape, or a string not allowed that the
\* parser rejects, makes Run return (nil, InvalidParam [paramName,
\* "Not<Domain>Range"]) without calling a validator.
C13_CoercionFailure ==
    (phase = "returned" /\ NotCoercible(arg))
    => /\ ret.value = NilParam
       /\ ret.err.Type = "InvalidParam"
       /\ ret.err.Fields = <<ParamName, NotRangeCodes[dom]>>
       /\ invoked = << >>

\* C13 witness: the parser rejected a string on an Int32 filter that has a validator
C13_Witness ==
    /\ phase = "returned"
    /\ dom = "Int32"
    /\ arg.type = "string"
    /\ parsed
    /\ validators # << >>
    /\ invoked = << >>
    /\ ret.err = [Type |-> "InvalidParam", Fields |-> <<ParamName, "NotInt32Range">>]

\* C14: what Run returns is (value, nil) or (nil, error): never an error
\* next to a value, and, for a paramValue that is not nil, never neither.
C14_ValueOrError ==
    phase = "returned"
    => /\ ret.err # Nil => ret.value = NilParam
       /\ (ret.err = Nil /\ arg # NilParam) => ret.value # NilParam

\* C14 witness: a validator other than the first rejected a parsed range
C14_Witness ==
    /\ phase = "returned"
    /\ arg.type = "string"
    /\ parsed
    /\ Len(invoked) = 2
    /\ ret.err = invoked[2].err
    /\ ret.err # Nil
    /\ ret.value = NilParam

\* C15: Run never panics: for every shape of paramValue, a nil *Range
\* included, and every validator chain, it ends by returning a pair.
C15_RunNeverPanics == phase # "panicked"

\* the closures of a chain, in order, without their captured variables
Closures(vs) == [i \in 1 .. Len(vs) |-> vs[i].kind]

\* C16: a Run, whatever its input and its outcome, leaves the validator list
\* (its length and its order), the two defaults and the allow-list as they were.
C16_RunKeepsConfiguration ==
    [][phase' \in {"returned", "panicked"}
       => /\ Closures(validators') = Closures(validators)
          /\ Closures(validators') = Closures(config)
          /\ defaultLeftVal' = defaultLeftVal
          /\ defaultRightVal' = defaultRightVal
          /\ allowVals' = allowVals
      ]_vars

\* C16 witness: a Run that ended with a validator's error on a filter with
\* two validators, an allow-list and a left default other than the factory's
C16_Witness ==
    /\ phase = "returned"
    /\ Len(validators) = 2
    /\ allowVals # << >>
    /\ dom \in IntDomains
    /\ defaultLeftVal # MinOf(dom)
    /\ invoked # << >>
    /\ ret.err # Nil

C18_ErrorStringStable ==
    (phase = "returned" /\ last.op = "Error")
    => last.ret = ret.err.Type \o ":" \o ParamName \o ":"
                      \o ret.err.Fields[Len(ret.err.Fields)]

\* a validator whose configuration is malformed: a TimeRange validator whose
\* string does not parse, a Match whose pattern ("[0-9" or "(") does not compile
MalformedValidator(v) ==
    IF v.kind = "Match" THEN Patterns[v.val] \in {"[0-9", "("} ELSE ~v.valid

\* C19: a validator with a malformed configuration does not crash Run:
\* whenever one is called, nothing is called after it and Run returns (nil,
\* InternalError [paramName, "InvalidValidator"]).
C19_MalformedValidator ==
    \A i \in 1 .. Len(invoked) :
        MalformedValidator(config[invoked[i].idx])
        => /\ i = Len(invoked)
           /\ phase = "returned"
           /\ ret = Returned(NilParam,
                             [Type |-> "InternalError",
                              Fields |-> <<ParamName, "InvalidValidator">>])

\* C19 witness: on a TimeRange filter a first validator accepted the range
\* and the second one, a MinDistance with a duration that does not parse,
\* ended the Run with the internal error
C19_Witness ==
    /\ phase = "returned"
    /\ dom = "Time"
    /\ Len(invoked) = 2
    /\ config[2] = Malformed("MinDistance")
    /\ IsRange(arg)
    /\ ret.err = [Type |-> "InternalError", Fields |-> <<ParamName, "InvalidValidator">>]

\* the text between the bracket and the separator, and the text between the
\* separator and the bracket, of an interval text
LeftText(val) ==
    SubSeq(val, 2, (CHOOSE i \in 1 .. Len(val) : val[i] = ",") - 1)

RightText(val) ==
    SubSeq(val, (CHOOSE i \in 1 .. Len(val) : val[i] = ",") + 1, Len(val) - 1)

\* a step in which Run took an interval text, parsed it and returned the Range
RunParsedText ==
    /\ phase \in {"build", "idle"}
    /\ phase' = "returned"
    /\ arg'.type = "string"
    /\ parsed'
    /\ ret'.err = Nil

\* the endpoints of the Range a Run returned for an interval text: the
\* default the filter held when Run was called where the text has none
DefaultsSubstituted ==
    /\ ret'.value.rng.Left =
           (IF LeftText(Trim(arg'.str)) = << >> THEN defaultLeftVal
            ELSE ParseNumber(LeftText(Trim(arg'.str))).n)
    /\ ret'.value.rng.Right =
           (IF RightText(Trim(arg'.str)) = << >> THEN defaultRightVal
            ELSE ParseNumber(RightText(Trim(arg'.str))).n)

\* a default is the value LeftDefault / RightDefault sets and stays as it is
\* in every other step
LastDefaultWins ==
    /\ defaultLeftVal' =
           (IF last'.op = "LeftDefault" THEN last'.args[1] ELSE defaultLeftVal)
    /\ defaultRightVal' =
           (IF last'.op = "RightDefault" THEN last'.args[1] ELSE defaultRightVal)

KindsInOrder ==
    <<"ObjectNotExist", "ObjectDuplicated", "NoObjectUpdated", "NoObjectDeleted",
      "MissingParam", "InvalidParam", "QuotaExceed", "PermissionDenied",
      "OperationFailed", "InternalError">>

\* C22: there are exactly ten error kinds, with the values 0..9 in the order
\* ObjectNotExist, ObjectDuplicated, NoObjectUpdated, NoObjectDeleted,
\* MissingParam, InvalidParam, QuotaExceed, PermissionDenied, OperationFailed,
\* InternalError; each kind has one label and no two kinds share a label or a
\* value: the kind of every *Error the caller holds has the value of its
\* place in that order, and its label is that of no other kind.
C22_ErrorKinds ==
    /\ Len(ErrorTypes) = 10
    /\ DOMAIN appErrorCodes = {ErrorTypes[i] : i \in 1 .. Len(ErrorTypes)}
    /\ ret.err # Nil
       => /\ ErrorValue(ret.err.Type) \in 0 .. 9
          /\ KindsInOrder[ErrorValue(ret.err.Type) + 1] = ret.err.Type
          /\ \A i \in 1 .. Len(ErrorTypes) :
                 ErrorTypes[i] # ret.err.Type
                 => /\ i - 1 # ErrorValue(ret.err.Type)
                    /\ appErrorCodes[ErrorTypes[i]] # appErrorCodes[ret.err.Type]

\* C22 witness: the caller holds an *Error of the last kind, InternalError,
\* whose value is 9, and Error() has been called on it
C22_Witness ==
    /\ phase = "returned"
    /\ last.op = "Error"
    /\ ret.err.Type = "InternalError"
    /\ ErrorValue(ret.err.Type) = 9

\* the six domains of integers proper (TimestampRange and TimeRange are the
\* time domains, with the reason codes TooEarly / TooLate)
IntegerDomains == IntDomains \ {"Timestamp"}

\* the closed range an open side stands for: the endpoint of the side the
\* validator tests moved one unit inwards
ShiftedClosed(v, r) ==
    IF v.kind \in LeftKinds THEN [r EXCEPT !.Left = @ + 1, !.LeftClosed = TRUE]
    ELSE [r EXCEPT !.Right = @ - 1, !.RightClosed = TRUE]

\* the first Run of a fresh filter with one boundary validator, on a range
\* open on the side the validator tests whose shifted endpoint is in the domain
FirstRunOnOpenSide ==
    /\ phase = "build"
    /\ phase' = "returned"
    /\ dom \in IntegerDomains
    /\ IsRange(arg')
    /\ config[1].kind \in BoundaryKinds
    /\ SideOpen(config[1], arg'.rng)
    /\ ShiftedClosed(config[1], arg'.rng) \in Ranges(dom)

\* the Run accepts iff the fresh validator accepts the shifted closed range
SameAsShiftedClosed ==
    (ret'.err = Nil) <=> (Call(dom, config[1], ParamName,
                               ShiftedClosed(config[1], arg'.rng)).err = Nil)

\* the thresholds of the validator are not at the extreme the adjustment
\* saturates at: above MIN for a left validator, below MAX for a right one
AwayFromExtreme(d, v) ==
    IF v.kind \in LeftKinds
    THEN v.val > MinOf(d) /\ (v.kind = "LeftBetween" => v.max > MinOf(d))
    ELSE v.val < MaxOf(d) /\ (v.kind = "RightBetween" => v.max < MaxOf(d))

\* C23 as stated: on the first Run of a fresh integer range filter, for every
\* boundary validator and every threshold, the domain extremes included, a
\* left-open range with Left = L < MAX is accepted iff the left-closed range
\* with Left = L + 1 is, and a right-open range with Right = R > MIN iff the
\* right-closed range with Right = R - 1 is.
C23_OpenIsShiftedClosed ==
    [][FirstRunOnOpenSide => SameAsShiftedClosed]_vars

\* C23 amended: the same, for every threshold other than the extreme at which
\* the adjustment saturates (MIN for a left validator, MAX for a right one).
C23_OpenIsShiftedClosedAwayFromExtreme ==
    [][(FirstRunOnOpenSide /\ AwayFromExtreme(dom, config[1])) => SameAsShiftedClosed]_vars

\* C23 witness: LeftEqual(v), v > MIN, has accepted on its first call a
\* left-open range with Left = v - 1
C23_Witness ==
    /\ phase = "returned"
    /\ dom \in IntegerDomains
    /\ config[1].kind = "LeftEqual"
    /\ config[1].val > MinOf(dom)
    /\ validators[1].val = config[1].val - 1
    /\ IsRange(arg)
    /\ ~arg.rng.LeftClosed
    /\ arg.rng.Left = config[1].val - 1
    /\ Accepted

\* the number of open sides of a range
OpenSides(r) == (IF r.LeftClosed THEN 0 ELSE 1) + (IF r.RightClosed THEN 0 ELSE 1)

\* what a distance validator with distance d is to return on a range of
\* width w with k open sides
DistanceOutcome(kind, d, w, k) ==
    IF w < k THEN InvalidParam(ParamName, "WrongRange")
    ELSE IF kind = "MinDistance" /\ w - k < d THEN InvalidParam(ParamName, "TooNear")
    ELSE IF kind = "MaxDistance" /\ w - k > d THEN InvalidParam(ParamName, "TooFar")
    ELSE Nil

\* C24: in every integer range domain, for every range with Left <= Right,
\* k open sides and w = Right - Left, MinDistance(d) and MaxDistance(d) return
\* WrongRange iff w < k; otherwise MinDistance(d) returns TooNear iff
\* w - k < d, MaxDistance(d) returns TooFar iff w - k > d, and both accept in
\* the remaining cases.
C24_DistanceOutcome ==
    (/\ phase = "returned"
     /\ dom \in IntDomains
     /\ IsRange(arg)
     /\ Len(config) = 1
     /\ config[1].kind \in DistanceKinds
     /\ arg.rng.Left <= arg.rng.Right)
    => ret.err = DistanceOutcome(config[1].kind, config[1].val,
                                 arg.rng.Right - arg.rng.Left, OpenSides(arg.rng))

\* C24 witness: MinDistance(1) has rejected with TooNear a range of width 2
\* open on both sides
C24_Witness ==
    /\ phase = "returned"
    /\ dom \in IntDomains
    /\ IsRange(arg)
    /\ ~arg.rng.LeftClosed
    /\ ~arg.rng.RightClosed
    /\ config[1] = Validator("MinDistance", 1, 0)
    /\ arg.rng.Right - arg.rng.Left = 2
    /\ ret.err = InvalidParam(ParamName, "TooNear")

\* the integer domains of the signedness of d in which the range r and the
\* distance of the validator v can be written as well
SameFamily(d, v, r) ==
    {e \in IntDomains : /\ Signed(e) = Signed(d)
                         /\ r.Left \in Dom(e)
                         /\ r.Right \in Dom(e)
                         /\ v.val \in Distances(e)}

\* C25: the distance validators of the integer range domains agree: for the
\* same Left, Right, LeftClosed, RightClosed and distance, all representable
\* in both domains, ranges with Left > Right included, MinDistance (resp.
\* MaxDistance) of Int32Range, IntRange and Int64Range return the same
\* outcome, and likewise those of Uint32Range, TimestampRange, UintRange and
\* Uint64Range.
C25_DistanceValidatorsAgree ==
    (/\ phase = "returned"
     /\ dom \in IntDomains
     /\ IsRange(arg)
     /\ Len(config) = 1
     /\ config[1].kind \in DistanceKinds)
    => \A e \in SameFamily(dom, config[1], arg.rng) :
           Call(e, config[1], ParamName, arg.rng).err = ret.err

\* C26: given a *Range, Run does not write to the Range it points to: its
\* Left, Right, LeftClosed and RightClosed are after the Run what they were
\* before, for every chain of built-in validators, and on success the value
\* returned is the caller's pointer.
C26_PointeeUntouched ==
    (phase = "returned" /\ arg.type = "*Range")
    => /\ pointee.rng = arg.rng
       /\ Accepted => (pointee.ref = "paramValue" /\ ret.value = arg)

\* C26 witness: a chain of a left and a right boundary validator has accepted
\* a Range open on both sides that the caller handed over by pointer
C26_Witness ==
    /\ phase = "returned"
    /\ arg.type = "*Range"
    /\ ~arg.rng.LeftClosed
    /\ ~arg.rng.RightClosed
    /\ Len(invoked) = 2
    /\ config[1].kind \in LeftKinds
    /\ config[2].kind \in RightKinds
    /\ Accepted
    /\ pointee = [rng |-> arg.rng, ref |-> "paramValue"]

\* the side a boundary validator tests and the endpoint of that side
SideOf(kind) == IF kind \in LeftKinds THEN "Left" ELSE "Right"

Endpoint(kind, r) == IF kind \in LeftKinds THEN r.Left ELSE r.Right

\* the bounds the latest call of validator 1 compared the endpoint with: the
\* captured variables as the call left them in the integer domains and in
\* Timestamp, the parsed thresholds moved by one second on an open side in Time
LowerBound ==
    IF dom # "Time" THEN validators[1].val
    ELSE IF SideOpen(config[1], arg.rng)
    THEN (IF config[1].kind \in LeftKinds THEN config[1].val - 1 ELSE config[1].val + 1)
    ELSE config[1].val

UpperBound ==
    IF config[1].kind \notin {"LeftBetween", "RightBetween"} THEN LowerBound
    ELSE IF dom # "Time" THEN validators[1].max
    ELSE IF SideOpen(config[1], arg.rng)
    THEN (IF config[1].kind \in LeftKinds THEN config[1].max - 1 ELSE config[1].max + 1)
    ELSE config[1].max

\* C27: the reason code of a boundary validator's failure names the endpoint
\* tested and the direction: Min and LargerThan fail only with <Side>TooSmall
\* (TooEarly in the time domains), Max and SmallerThan only with
\* <Side>TooLarge (TooLate), and Equal and Between return <Side>TooSmall exactly
\* when the endpoint is below the adjusted lower bound and <Side>TooLarge
\* exactly when it is not and is above the adjusted upper bound.
C27_ReasonCodes ==
    (/\ phase = "returned"
     /\ IsRange(arg)
     /\ Len(config) = 1
     /\ config[1].kind \in BoundaryKinds)
    => /\ config[1].kind \in {"LeftMin", "LeftLargerThan", "RightMin", "RightLargerThan"}
          => ret.err \in {Nil, InvalidParam(ParamName, TooSmall(dom, SideOf(config[1].kind)))}
       /\ config[1].kind \in {"LeftMax", "LeftSmallerThan", "RightMax", "RightSmallerThan"}
          => ret.err \in {Nil, InvalidParam(ParamName, TooLarge(dom, SideOf(config[1].kind)))}
       /\ config[1].kind \in {"LeftEqual", "LeftBetween", "RightEqual", "RightBetween"}
          => ret.err =
                (IF Endpoint(config[1].kind, arg.rng) < LowerBound
                 THEN InvalidParam(ParamName, TooSmall(dom, SideOf(config[1].kind)))
                 ELSE IF Endpoint(config[1].kind, arg.rng) > UpperBound
                 THEN InvalidParam(ParamName, TooLarge(dom, SideOf(config[1].kind)))
                 ELSE Nil)

\* C27 witness: a TimestampRange RightBetween whose bounds are the wrong way
\* round (start above end) has found the right endpoint below start and above
\* end, and returned RightTooEarly
C27_Witness ==
    /\ phase = "returned"
    /\ dom = "Timestamp"
    /\ IsRange(arg)
    /\ config[1].kind = "RightBetween"
    /\ arg.rng.Right < validators[1].val
    /\ arg.rng.Right > validators[1].max
    /\ ret.err = InvalidParam(ParamName, "RightTooEarly")

\* the threshold strings of closure i parsed under the layout that was in
\* force when the closure was registered
ParsedWhenRegistered(i) == config[i].valid /\ config[i].form = registered[i]

\* C28: a TimeRange boundary validator whose threshold string parses under the
\* layout in force when it was registered never yields the internal error
\* InvalidValidator at Run, whatever calls of Layout and HasTime are made
\* between its registration and the Run.
C28_LayoutAtRegistration ==
    (/\ phase = "returned"
     /\ dom = "Time"
     /\ \A i \in 1 .. Len(config) :
            config[i].kind \in BoundaryKinds => ParsedWhenRegistered(i))
    => ret.err # NewError(ErrorInternalError, <<ParamName, "InvalidValidator">>)

\* C29: TimestampFilter.EndTo(val) accepts a timestamp iff it is not later
\* than val and rejects every later timestamp with the reason code TooLate,
\* as the mirror image of StartFrom(val), which accepts iff the timestamp is
\* not earlier than val.
C29_EndToAcceptsUpToVal ==
    (/\ phase = "returned"
     /\ dom = "TimestampFilter"
     /\ arg.type = "number"
     /\ Len(config) = 1)
    => /\ config[1].kind = "EndTo"
          => ret.err = (IF arg.num <= config[1].val THEN Nil
                        ELSE InvalidParam(ParamName, "TooLate"))
       /\ config[1].kind = "StartFrom"
          => ret.err = (IF arg.num >= config[1].val THEN Nil
                        ELSE InvalidParam(ParamName, "TooEarly"))

\* C30: the 32-bit scalar filters never return a wrapped or truncated number:
\* for every numeric string, Run returns an InvalidParam error or a number
\* equal to the literal (or the string itself when it is on the allow-list).
C30_NoWrappedNumber ==
    (/\ phase = "returned"
     /\ dom \in ScalarFilters
     /\ arg.type = "string"
     /\ ParseNumber(Trim(arg.str)).ok)
    => \/ ret.err # Nil /\ ret.err.Type = ErrorInvalidParam
       \/ ret.err = Nil /\ ret.value = StringParam(Trim(arg.str))
       \/ ret.err = Nil /\ ret.value = NumberParam(ParseNumber(Trim(arg.str)).n)

====
